---- MODULE Spec2Model ----
(***************************************************************************)
(* A model of microbenthos: the sediment/DBL domain with its variable      *)
(* registry (src/microbenthos/domain.py) and the entities that attach to   *)
(* it and create their variables (src/microbenthos/core/entity.py).        *)
(*                                                                         *)
(* Numbers.  Lengths are integers in micrometres (0.1 mm = 100), so the    *)
(* quotient length / cell_size is the exact rational one and int() is its  *)
(* truncation.  Porosities are integers in hundredths (0.6 = 60, 1.0 =     *)
(* 100).  Rounding of binary floating point is not modelled.               *)
(*                                                                         *)
(* Objects.  One SedimentDBLDomain object, named "D", is modelled with its *)
(* whole state.  CellVariables live in a heap, cellvars, indexed by the    *)
(* order of creation; the registry VARS maps a name to a heap index, so    *)
(* "the same array object" is "the same index".  Arrays are functions on   *)
(* 0 .. N-1, the cell indices of the source.                               *)
(***************************************************************************)
EXTENDS Integers, Sequences, FiniteSets, TLC

\* None, where the other values are strings (a domain reference, a unit).
None == "None"
\* None, where the other values are numbers (the geometry before __init__).
NoInt == -1
\* None, where the other values are arrays: the empty array.
NoArray == <<>>
\* None, where the other values are meshes.
NoMesh == [nx |-> 0, dx |-> 0]
\* None, where the other values are CellVariables (indices in cellvars).
NoVar == 0
\* None, where the other values are ExprProcess objects: exists is FALSE.
NoProc ==
    [exists |-> FALSE, formula |-> [ok |-> FALSE, coef |-> 0, syms |-> {}],
     varnames |-> <<>>, params |-> <<>>, responses |-> <<>>]

\* ----------------------------------------------------------------- bounds

\* The number of entities the driver builds.
NumEntities == 2
\* The number of constraints on an array beyond which a caller makes no more
\* direct calls of constrain().
MaxConstraints == 2
\* The number of runs of an entity's on_domain_set beyond which the driver
\* assigns it no more domains.
MaxHookRuns == 2

\* ------------------------------------------------------ program constants

\* cell_size = 0.1 (mm), in micrometres.
DefaultCellSize == 100
\* sediment_length = 10 (mm), in micrometres.
DefaultSedimentLength == 10000
\* dbl_length = 1 (mm), in micrometres.
DefaultDblLength == 1000
\* porosity = 0.6, in hundredths.
DefaultPorosity == 60
\* (self.sediment_length / self.cell_size) >= 10
MinSedimentCells == 10
\* 0.1 < porosity, in hundredths.
PorosityLo == 10
\* porosity < 0.9, in hundredths.
PorosityHi == 90
\* P[:self.idx_surface] = 1.0, in hundredths.
DBLPorosity == 100

\* ------------------------------------------------------------------ state

VARIABLES
    d_pc,               \* position of "D" in its constructor: "new" (after
                        \* lines 37-40), "ready" (returned) or "failed" (raised)
    mesh,               \* D.mesh: NoMesh, or [nx |-> cells, dx |-> cell size]
    depths_um,          \* D.depths_um: cell index -> depth (micrometres)
    cell_size,          \* D.cell_size
    sediment_length,    \* D.sediment_length
    DBL_length,         \* D.DBL_length
    sediment_Ncells,    \* D.sediment_Ncells
    DBL_Ncells,         \* D.DBL_Ncells
    domain_Ncells,      \* D.domain_Ncells
    idx_surface,        \* D.idx_surface
    sediment_porosity,  \* D.sediment_porosity
    VARS,               \* D.VARS: name -> index in cellvars
    cellvars,           \* the CellVariable objects, in order of creation
    ent,                \* the entities: entity -> its attributes
    first_setup,        \* history, kept under SpecSetups: entity -> how its
                        \* first setup() with a domain ended, None before it
    proc,               \* the ExprProcess under study, NoProc before it is
                        \* constructed
    config_dict,        \* the config dict that the driver hands to from_dict
    hook_runs,          \* history, kept under SpecAttach: entity -> the runs
                        \* of its on_domain_set, each the self.domain it saw
    last                \* history: the last call made, how it ended and
                        \* the array it returned

domvars == <<d_pc, mesh, depths_um, cell_size, sediment_length, DBL_length,
             sediment_Ncells, DBL_Ncells, domain_Ncells, idx_surface,
             sediment_porosity, VARS, cellvars>>

vars == <<d_pc, mesh, depths_um, cell_size, sediment_length, DBL_length,
          sediment_Ncells, DBL_Ncells, domain_Ncells, idx_surface,
          sediment_porosity, VARS, cellvars, ent, first_setup, proc,
          config_dict, hook_runs, last>>

\* ---------------------------------------------------------------- helpers

\* The empty registry, {} in the source.
EmptyDict == [n \in {} |-> None]

\* d[k] = v, for a dict d modelled as a function.
DictSet(d, k, v) == [n \in (DOMAIN d) \cup {k} |-> IF n = k THEN v ELSE d[n]]

\* The quotient rounded up.
IntDiv_up(a, b) == IF a >= 0 THEN (a + b - 1) \div b ELSE -((-a) \div b)

\* int(a / b) for b > 0: truncation toward zero of the exact quotient.
IntDiv(a, b) == IF a >= 0 THEN a \div b ELSE -((-a) \div b)

\* ---------------------------------------------------- values and arrays

\* The values a caller hands to create_var: None, a number, or an array of
\* n entries base, base+1, ... (an object with a shape).
NoValue == [kind |-> "none", n |-> 0, base |-> 0]
Scalar(v) == [kind |-> "scalar", n |-> 0, base |-> v]
Array(n, b) == [kind |-> "array", n |-> n, base |-> b]

\* A broadcast that writes the number to the first cell only.
Broadcast_first_cell(value, nx) ==
    [i \in 0 .. nx - 1 |->
        IF value.kind = "array" THEN value.base + i
        ELSE IF i = 0 THEN value.base ELSE 0]

\* value *= numerix.ones(mesh.shape): a number fills every cell, an array of
\* the mesh's shape keeps its entries.
Broadcast(value, nx) ==
    [i \in 0 .. nx - 1 |->
        IF value.kind = "array" THEN value.base + i ELSE value.base]

\* CellVariable(mesh=..., name=..., value=..., unit=..., hasOld=...): the
\* object that fipy builds.  old is the copy kept when hasOld is set;
\* constraints are the cell constraints and faceConstraints the face ones.
CellVariable(name, value, unit, hasOld) ==
    [name |-> name, value |-> value, unit |-> unit, hasOld |-> hasOld,
     old |-> IF hasOld THEN value ELSE NoArray,
     constraints |-> <<>>, faceConstraints |-> <<>>]

\* ------------------------------------------------- SedimentDBLDomain

\* create_mesh(): the grid of domain_Ncells cells, and the depth of each
\* cell centre relative to the centre of the cell at idx_surface.
create_mesh(cs, nx, surface) ==
    [mesh |-> [nx |-> nx, dx |-> cs],
     depths_um |-> [i \in 0 .. nx - 1 |-> (i - surface) * cs]]

\* create_var without the check of the value's shape.
create_var_any_shape(m, V, C, name, value, unit, hasOld) ==
    LET fail(e) == [result |-> e, VARS |-> V, cellvars |-> C, var |-> NoVar]
        val == IF value.kind = "none" THEN Scalar(0) ELSE value
    IN  IF m = NoMesh THEN fail("RuntimeError")
        ELSE IF name = "" THEN fail("ValueError")
        ELSE IF name \in DOMAIN V THEN fail("RuntimeError")
        ELSE LET var == CellVariable(name, Broadcast(val, m.nx), unit, hasOld)
                 id == Len(C) + 1
             IN  [result |-> "ok", VARS |-> DictSet(V, name, id),
                  cellvars |-> Append(C, var), var |-> id]

\* create_var that writes over a registered name (the warning that the
\* source has commented out) instead of raising.
create_var_overwrites(m, V, C, name, value, unit, hasOld) ==
    LET fail(e) == [result |-> e, VARS |-> V, cellvars |-> C, var |-> NoVar]
        val == IF value.kind = "none" THEN Scalar(0) ELSE value
    IN  IF m = NoMesh THEN fail("RuntimeError")
        ELSE IF name = "" THEN fail("ValueError")
        ELSE IF val.kind = "array" /\ val.n # m.nx THEN fail("ValueError")
        ELSE LET var == CellVariable(name, Broadcast(val, m.nx), unit, hasOld)
                 id == Len(C) + 1
             IN  [result |-> "ok", VARS |-> DictSet(V, name, id),
                  cellvars |-> Append(C, var), var |-> id]

\* create_var(name, value=, unit=, hasOld=) on a domain whose mesh is m,
\* registry V and heap C.  The result names the exception raised, or "ok";
\* var is the index of the array returned.
create_var(m, V, C, name, value, unit, hasOld) ==
    LET fail(e) == [result |-> e, VARS |-> V, cellvars |-> C, var |-> NoVar]
        val == IF value.kind = "none" THEN Scalar(0) ELSE value
    IN  IF m = NoMesh THEN fail("RuntimeError")
        ELSE IF name = "" THEN fail("ValueError")
        ELSE IF name \in DOMAIN V THEN fail("RuntimeError")
        ELSE IF val.kind = "array" /\ val.n # m.nx THEN fail("ValueError")
        ELSE LET var == CellVariable(name, Broadcast(val, m.nx), unit, hasOld)
                 id == Len(C) + 1
             IN  [result |-> "ok", VARS |-> DictSet(V, name, id),
                  cellvars |-> Append(C, var), var |-> id]

\* The fill with the surface cell counted to the DBL.
PorosityFill_surface_in_dbl(a, surface, porosity) ==
    [i \in DOMAIN a |-> IF i <= surface THEN DBLPorosity ELSE porosity]

\* P[:surface] = 1.0 ; P[surface:] = porosity, on the array a.
PorosityFill(a, surface, porosity) ==
    [i \in DOMAIN a |-> IF i < surface THEN DBLPorosity ELSE porosity]

\* set_porosity that makes a new array at every call.
set_porosity_recreates(m, V, C, surface, sp, porosity) ==
    IF ~(PorosityLo < porosity /\ porosity < PorosityHi) \/ m = NoMesh
    THEN [result |-> IF m = NoMesh THEN "RuntimeError" ELSE "ValueError",
          VARS |-> V, cellvars |-> C, sediment_porosity |-> sp, var |-> NoVar]
    ELSE LET id == Len(C) + 1
             P == CellVariable("porosity",
                               PorosityFill(Broadcast(Scalar(DBLPorosity), m.nx),
                                            surface, porosity),
                               None, FALSE)
         IN  [result |-> "ok", VARS |-> DictSet(V, "porosity", id),
              cellvars |-> Append(C, P), sediment_porosity |-> porosity,
              var |-> id]

\* set_porosity that accepts the ends of the interval.
set_porosity_closed(m, V, C, surface, sp, porosity) ==
    IF ~(PorosityLo <= porosity /\ porosity <= PorosityHi)
    THEN [result |-> "ValueError", VARS |-> V, cellvars |-> C,
          sediment_porosity |-> sp, var |-> NoVar]
    ELSE LET made == IF "porosity" \in DOMAIN V
                     THEN [result |-> "ok", VARS |-> V, cellvars |-> C,
                           var |-> V["porosity"]]
                     ELSE create_var(m, V, C, "porosity", Scalar(DBLPorosity),
                                     None, FALSE)
         IN  IF made.result # "ok"
             THEN [result |-> made.result, VARS |-> V, cellvars |-> C,
                   sediment_porosity |-> sp, var |-> NoVar]
             ELSE [result |-> "ok", VARS |-> made.VARS,
                   cellvars |-> [made.cellvars EXCEPT ![made.var].value =
                                    PorosityFill(@, surface, porosity)],
                   sediment_porosity |-> porosity, var |-> made.var]

\* set_porosity(porosity) on a domain whose mesh is m, registry V, heap C,
\* surface index surface and sediment porosity sp.
set_porosity(m, V, C, surface, sp, porosity) ==
    IF ~(PorosityLo < porosity /\ porosity < PorosityHi)
    THEN [result |-> "ValueError", VARS |-> V, cellvars |-> C,
          sediment_porosity |-> sp, var |-> NoVar]
    ELSE LET made == IF "porosity" \in DOMAIN V
                     THEN [result |-> "ok", VARS |-> V, cellvars |-> C,
                           var |-> V["porosity"]]
                     ELSE create_var(m, V, C, "porosity", Scalar(DBLPorosity),
                                     None, FALSE)
         IN  IF made.result # "ok"
             THEN [result |-> made.result, VARS |-> V, cellvars |-> C,
                   sediment_porosity |-> sp, var |-> NoVar]
             ELSE [result |-> "ok", VARS |-> made.VARS,
                   cellvars |-> [made.cellvars EXCEPT ![made.var].value =
                                    PorosityFill(@, surface, porosity)],
                   sediment_porosity |-> porosity, var |-> made.var]

\* __init__(cell_size, sediment_length, dbl_length, porosity) with
\* cell_size > 0: the state the constructor leaves, and how it ended.
SedimentDBLDomain(cs, sl, dl, por) ==
    LET blank == [result |-> "AssertionError", mesh |-> NoMesh,
                  depths_um |-> NoArray,
                  cell_size |-> cs, sediment_length |-> sl, DBL_length |-> dl,
                  sediment_Ncells |-> NoInt, DBL_Ncells |-> NoInt,
                  domain_Ncells |-> NoInt, idx_surface |-> NoInt,
                  sediment_porosity |-> NoInt, VARS |-> EmptyDict,
                  cellvars |-> <<>>]
    IN  IF ~(sl > 0) \/ ~(dl >= 0) \/ ~(sl >= MinSedimentCells * cs)
        THEN blank
        ELSE LET sN == IntDiv(sl, cs)
                 dN == IntDiv(dl, cs)
                 g == create_mesh(cs, sN + dN, dN)
                 p == set_porosity(g.mesh, EmptyDict, <<>>, dN, NoInt, por)
             IN  [result |-> p.result, mesh |-> g.mesh, depths_um |-> g.depths_um,
                  cell_size |-> cs, sediment_length |-> sN * cs,
                  DBL_length |-> dN * cs,
                  sediment_Ncells |-> sN, DBL_Ncells |-> dN,
                  domain_Ncells |-> sN + dN, idx_surface |-> dN,
                  sediment_porosity |-> p.sediment_porosity, VARS |-> p.VARS,
                  cellvars |-> p.cellvars]

\* ------------------------------------------------------------ quantities

\* A number with a unit (a PhysicalField); a plain number has unit None.
Q(v, u) == [v |-> v, unit |-> u]

\* The dimension of a unit; None is the dimensionless unit.
Dim(u) ==
    CASE u \in {"mol/l", "mol/m**3"} -> "concentration"
      [] u \in {"mol/s"} -> "rate"
      [] u \in {"mm", "m"} -> "length"
      [] OTHER -> "1"

\* How many of the dimension's smallest modelled unit make one u.
Scale(u) ==
    CASE u \in {"mol/l", "m"} -> 1000
      [] OTHER -> 1

\* q.inUnitsOf(u): TypeError when the dimensions differ.
inUnitsOf(q, u) ==
    IF Dim(q.unit) # Dim(u)
    THEN [result |-> "TypeError", v |-> q.v]
    ELSE [result |-> "ok", v |-> (q.v * Scale(q.unit)) \div Scale(u)]

\* ----------------------------------------------------------- entities

\* The objects a caller may assign as an entity's domain: the modelled
\* SedimentDBLDomain "D", and "Empty", an object that is not None and is
\* false in a condition (tuple(), as in test_add_domain's comment).
DomainObjs == {"D", "Empty"}

\* bool(d) of a domain reference.
Truthy(d) == d \notin {None, "Empty"}

\* The setter with None clearing the reference.
domain_setter_clears(cur, d) ==
    IF d = None THEN [result |-> "ok", domain |-> None, hook |-> <<>>]
    ELSE IF Truthy(cur)
    THEN [result |-> "RuntimeError", domain |-> cur, hook |-> <<>>]
    ELSE [result |-> "ok", domain |-> d, hook |-> <<d>>]

\* DomainEntity.domain = d, on an entity whose _domain is cur: the exception
\* raised ("ok" when none), the _domain left, and the run of on_domain_set,
\* which is called after self._domain = domain and so sees d.
domain_setter(cur, d) ==
    IF d = None THEN [result |-> "ok", domain |-> cur, hook |-> <<>>]
    ELSE IF Truthy(cur)
    THEN [result |-> "RuntimeError", domain |-> cur, hook |-> <<>>]
    ELSE [result |-> "ok", domain |-> d, hook |-> <<d>>]

\* has_domain: self.domain is not None.
has_domain(e) == e.domain # None

\* check_domain() that never raises.
check_domain_passes(e) == "ok"

\* check_domain(): RuntimeError without a domain.
check_domain(e) == IF ~has_domain(e) THEN "RuntimeError" ELSE "ok"

\* is_setup that reports whether the entity has its array.
is_setup_by_var(e) == e.var # NoVar

\* is_setup, which no class of the source overrides.
is_setup(e) == TRUE

\* A linspace that leaves the end point out.
linspace_open(start, stop, N) ==
    [i \in 0 .. N - 1 |-> start + (i * (stop - start)) \div N]

\* numerix.linspace(start, stop, N).
linspace(start, stop, N) ==
    [i \in 0 .. N - 1 |->
        IF N = 1 THEN start ELSE start + (i * (stop - start)) \div (N - 1)]

\* Variable.seed(profile, **params) on the CellVariable cv: the exception
\* raised and the value of cv it leaves.
seed(cv, profile, params) ==
    LET fail(x) == [result |-> x, value |-> cv.value]
        N == Cardinality(DOMAIN cv.value)
    IN  IF profile \notin {"linear", "normal"} THEN fail("ValueError")
        ELSE IF profile = "normal"
        THEN IF {"loc", "scale", "coeff"} \ DOMAIN params # {}
             THEN fail("KeyError")
             \* loc.inUnitsOf(self.domain.depths.unit): the domain has
             \* depths_um and no attribute depths
             ELSE IF params.loc.unit # None \/ params.scale.unit # None
             THEN fail("AttributeError")
             ELSE IF params.coeff.unit # None
                     /\ inUnitsOf(params.coeff, cv.unit).result # "ok"
             THEN fail("ValueError")
             \* normrv.pdf(self.domain.depths)
             ELSE fail("AttributeError")
        ELSE IF {"start", "stop"} \ DOMAIN params # {}
             THEN fail("KeyError")
             ELSE LET a == IF params.start.unit # None
                           THEN inUnitsOf(params.start, cv.unit)
                           ELSE [result |-> "ok", v |-> params.start.v]
                      b == IF params.stop.unit # None
                           THEN inUnitsOf(params.stop, cv.unit)
                           ELSE [result |-> "ok", v |-> params.stop.v]
                  IN  IF a.result # "ok" THEN fail(a.result)
                      ELSE IF b.result # "ok" THEN fail(b.result)
                      ELSE [result |-> "ok", value |-> linspace(a.v, b.v, N)]

\* The masks with the surface cell counted to the DBL.
LocMask_surface_in_dbl(loc, nx, surface) ==
    {i \in 0 .. nx - 1 : IF loc = "dbl" THEN i <= surface ELSE i > surface}

\* The mask of a 'dbl' or 'sediment' constraint: the cells it fixes.
LocMask(loc, nx, surface) ==
    {i \in 0 .. nx - 1 : IF loc = "dbl" THEN i < surface ELSE i >= surface}

\* locs = ('top', 'bottom', 'dbl', 'sediment'), the keys of self._LOCs.
Locs == {"top", "bottom", "dbl", "sediment"}

\* Variable.constrain(loc, value) on the CellVariable cv (var is not None,
\* _LOCs exists): the exception raised and the CellVariable left.
constrain(cv, loc, value, nx, surface) ==
    LET c == IF value.unit # None THEN inUnitsOf(value, cv.unit)
             ELSE [result |-> "ok", v |-> value.v]
    IN  IF loc \notin Locs THEN [result |-> "ValueError", cv |-> cv]
        ELSE IF c.result # "ok" THEN [result |-> c.result, cv |-> cv]
        ELSE IF loc \in {"top", "bottom"}
        THEN [result |-> "ok",
              cv |-> [cv EXCEPT !.faceConstraints =
                          Append(@, [value |-> c.v, where |-> loc])]]
        ELSE [result |-> "ok",
              cv |-> [cv EXCEPT !.constraints =
                          Append(@, [value |-> c.v,
                                     where |-> LocMask(loc, nx, surface)])]]

\* for loc, value in self.constraints.items(): self.constrain(loc, value),
\* from the k-th constraint on; the first exception ends the loop.
RECURSIVE constrain_all(_, _, _, _, _)
constrain_all(cv, cons, k, nx, surface) ==
    IF k > Len(cons) THEN [result |-> "ok", cv |-> cv]
    ELSE LET r == constrain(cv, cons[k].loc, cons[k].value, nx, surface)
         IN  IF r.result # "ok" THEN r
             ELSE constrain_all(r.cv, cons, k + 1, nx, surface)

\* The value read from a CellVariable: its stored value with every cell
\* constraint applied, in the order they were made.
RECURSIVE Constrained(_, _, _)
Constrained(value, cons, k) ==
    IF k > Len(cons) THEN value
    ELSE Constrained([i \in DOMAIN value |->
                         IF i \in cons[k].where THEN cons[k].value ELSE value[i]],
                     cons, k + 1)

CellValue(cv) == Constrained(cv.value, cv.constraints, 1)

\* Variable.setup() of entity e against the domain state (m, V, C, surface):
\* the exception raised, the registry and heap left, e.var left, and the
\* steps started, in their order: create, seed, updateOld, and constrain for
\* each constraint.  With late set, updateOld is moved behind the
\* constraints (fipy's updateOld copies the value as it reads, constraints
\* applied).
Variable_setup_with(e, m, V, C, surface, late) ==
    LET out(x, V2, C2, var, locs, steps) ==
            [result |-> x, VARS |-> V2, cellvars |-> C2, var |-> var,
             LOCs |-> locs, steps |-> steps]
    IN  IF check_domain(e) # "ok"
        THEN out(check_domain(e), V, C, e.var, e.LOCs, <<>>)
        \* self.domain.create_var on an object that is no domain
        ELSE IF e.domain # "D"
        THEN out("AttributeError", V, C, e.var, e.LOCs, <<"create">>)
        ELSE LET made == create_var(m, V, C, e.name, e.create_params.value,
                                    e.create_params.unit,
                                    e.create_params.hasOld)
             IN  IF made.result # "ok"
                 THEN out(made.result, V, C, e.var, e.LOCs, <<"create">>)
                 ELSE LET cv0 == made.cellvars[made.var]
                          seeds == DOMAIN e.seed_params # {}
                          snapshot == seeds /\ e.create_params.hasOld
                          seeded ==
                              IF ~seeds
                              THEN [result |-> "ok", value |-> cv0.value]
                              ELSE seed(cv0, e.seed_params.profile,
                                        e.seed_params.params)
                          cv1 == [cv0 EXCEPT
                                     !.value = seeded.value,
                                     !.old = IF snapshot /\ ~late
                                             THEN seeded.value ELSE @]
                          done == constrain_all(cv1, e.constraints, 1,
                                                m.nx, surface)
                          cv2 == [done.cv EXCEPT
                                     !.old = IF snapshot /\ late
                                             THEN CellValue(done.cv) ELSE @]
                          started ==
                              IF done.result = "ok" THEN Len(e.constraints)
                              ELSE Len(done.cv.constraints)
                                       + Len(done.cv.faceConstraints) + 1
                          constrains == [k \in 1 .. started |-> "constrain"]
                          updateOld == IF snapshot THEN <<"updateOld">>
                                       ELSE <<>>
                      IN  IF seeded.result # "ok"
                          THEN out(seeded.result, made.VARS, made.cellvars,
                                   made.var, e.LOCs, <<"create", "seed">>)
                          ELSE out(done.result, made.VARS,
                                   [made.cellvars EXCEPT ![made.var] = cv2],
                                   made.var, TRUE,
                                   <<"create">>
                                       \o (IF seeds THEN <<"seed">> ELSE <<>>)
                                       \o (IF late THEN constrains \o updateOld
                                           ELSE updateOld \o constrains))

\* Variable.setup() that takes the old-value snapshot after the constraints.
Variable_setup_late_snapshot(e, m, V, C, surface) ==
    Variable_setup_with(e, m, V, C, surface, TRUE)

\* Variable.setup()
Variable_setup(e, m, V, C, surface) ==
    Variable_setup_with(e, m, V, C, surface, FALSE)

\* DomainEntity.setup(): logs, and nothing else.
DomainEntity_setup(e, V, C) ==
    [result |-> "ok", VARS |-> V, cellvars |-> C, var |-> e.var,
     LOCs |-> e.LOCs, steps |-> <<>>]

\* e.setup(), by the class of e.
setup(e, m, V, C, surface) ==
    IF e.cls = "Variable" THEN Variable_setup(e, m, V, C, surface)
    ELSE DomainEntity_setup(e, V, C)

\* What a caller may hand in as a constraint's value: a number, a string that
\* reads as a number ('1.3'), another string ('abc'), a list of n entries, a
\* PhysicalField holding a number, a PhysicalField holding n entries.
Number == [kind |-> "number", n |-> 0]
NumStr == [kind |-> "numstr", n |-> 0]
Str == [kind |-> "str", n |-> 0]
List(n) == [kind |-> "list", n |-> n]
PF == [kind |-> "pf", n |-> 0]
PFArray(n) == [kind |-> "pfarray", n |-> n]

\* float(val.value) for a PhysicalField, float(val) otherwise: the exception
\* raised.  float() of a list is a TypeError whatever its length; float() of
\* an array is one unless the array has a single entry.
ToFloat(val) ==
    CASE val.kind \in {"number", "numstr", "pf"} -> "ok"
      [] val.kind = "str" -> "ValueError"
      [] val.kind = "list" -> "TypeError"
      [] val.kind = "pfarray" -> IF val.n = 1 THEN "ok" ELSE "TypeError"

\* What a caller may hand in as constraints: None, a number, a sequence
\* whose entries are no pairs (('top', 1), '234'), or a mapping or sequence
\* of pairs, given by its items in order.
NoConstraints == [kind |-> "none", items |-> <<>>]
NumberArg == [kind |-> "number", items |-> <<>>]
NotPairs == [kind |-> "notpairs", items |-> <<>>]
Pairs(items) == [kind |-> "pairs", items |-> items]

\* dict(constraints): TypeError for an object that cannot be iterated,
\* ValueError for entries that are no pairs; of two pairs with one key the
\* later one stays.
dict(c) ==
    CASE c.kind \in {"none", "number"} -> [result |-> "TypeError", d |-> <<>>]
      [] c.kind = "notpairs" -> [result |-> "ValueError", d |-> <<>>]
      [] OTHER ->
            [result |-> "ok",
             d |-> [k \in {c.items[i].loc : i \in DOMAIN c.items} |->
                       c.items[CHOOSE i \in DOMAIN c.items :
                                   /\ c.items[i].loc = k
                                   /\ \A j \in DOMAIN c.items :
                                          j > i => c.items[j].loc # k].val]]

\* check_constraints with any key taken.
check_constraints_any_loc(c) ==
    IF dict(c).result # "ok" THEN "ValueError"
    ELSE IF \E k \in DOMAIN dict(c).d : ToFloat(dict(c).d[k]) # "ok"
    THEN "ValueError"
    ELSE "ok"

\* Variable.check_constraints(constraints): the exception raised.
check_constraints(c) ==
    IF dict(c).result # "ok" THEN "ValueError"
    ELSE IF \E k \in DOMAIN dict(c).d :
                k \notin Locs \/ ToFloat(dict(c).d[k]) # "ok"
    THEN "ValueError"
    ELSE "ok"

\* e.constrain(loc, value), called on the entity e: the exception raised
\* and the heap left.
Variable_constrain(e, C, loc, value, nx, surface) ==
    IF e.var = NoVar THEN [result |-> "RuntimeError", cellvars |-> C]
    \* self._LOCs, which only setup() assigns
    ELSE IF ~e.LOCs THEN [result |-> "AttributeError", cellvars |-> C]
    ELSE LET r == constrain(C[e.var], loc, value, nx, surface)
         IN  [result |-> r.result, cellvars |-> [C EXCEPT ![e.var] = r.cv]]

\* e.seed(profile, **params), called on the entity e: the exception raised
\* and the heap left.
Variable_seed(e, C, profile, params) ==
    IF e.var = NoVar
    THEN [result |->
              IF profile \notin {"linear", "normal"} THEN "ValueError"
              ELSE IF profile = "normal"
                      /\ {"loc", "scale", "coeff"} \ DOMAIN params # {}
              THEN "KeyError"
              ELSE IF profile = "linear"
                      /\ {"start", "stop"} \ DOMAIN params # {}
              THEN "KeyError"
              \* self.var.shape, self.var.unit, self.domain.depths
              ELSE "AttributeError",
          cellvars |-> C]
    ELSE LET r == seed(C[e.var], profile, params)
         IN  [result |-> r.result,
              cellvars |-> [C EXCEPT ![e.var].value = r.value]]

\* ------------------------------------------------------------ processes

\* A formula as sympify reads it: ok is FALSE when sympify raises; otherwise
\* the expression is the monomial coef * (the product of syms), and syms are
\* its Symbol atoms.  '0' is Formula(0, {}), 'a*b' is Formula(1, {"a", "b"}).
Formula(coef, syms) == [ok |-> TRUE, coef |-> coef, syms |-> syms]
BadFormula == [ok |-> FALSE, coef |-> 0, syms |-> {}]

\* The init parameters of an ExprProcess: varnames is a sequence of names,
\* params a sequence of [name, value] (an ordered mapping), responses a
\* sequence of [name, cdict], the names distinct.
InitParams(formula, varnames, params, responses) ==
    [formula |-> formula, varnames |-> varnames, params |-> params,
     responses |-> responses]

\* The names of a sequence of [name, ...] records, and of a sequence.
Names(seq) == {seq[i].name : i \in DOMAIN seq}
Range(seq) == {seq[i] : i \in DOMAIN seq}

\* argnames: self.varnames + tuple(self.params), as a set.
argnames(pr) == Range(pr.varnames) \cup Names(pr.params)

\* The values handed around as P and as post_params: None, a number, or a mapping of names to
\* such values.
PyNone == [kind |-> "None", num |-> 0, items |-> EmptyDict]
Num(v) == [kind |-> "num", num |-> v, items |-> EmptyDict]
Mapping(items) == [kind |-> "dict", num |-> 0, items |-> items]

\* 'not P'
Falsy(P) ==
    \/ P.kind = "None"
    \/ P.kind = "dict" /\ DOMAIN P.items = {}
    \/ P.kind = "num" /\ P.num = 0

\* A class path is the sequence of the names that its dots separate:
\* 'microbenthos.process.ExprProcess' is <<"microbenthos", "process",
\* "ExprProcess">>.

\* rsplit that gives a bare name no module.
rsplit_no_default(path) ==
    [modname |-> SubSeq(path, 1, Len(path) - 1), name |-> path[Len(path)]]

\* cls_modname, cls_name = cls.rsplit('.', 1), and the ValueError of a path
\* without a dot, which makes the module 'microbenthos'.
rsplit(path) ==
    IF Len(path) = 1 THEN [modname |-> <<"microbenthos">>, name |-> path[1]]
    ELSE [modname |-> SubSeq(path, 1, Len(path) - 1), name |-> path[Len(path)]]

\* getattr(importlib.import_module(modname), name) succeeds for these: the
\* classes that the configurations name, in the modules that hold them.  Any
\* other module is an ImportError, any other name an AttributeError.
ModuleAttrs(modname) ==
    IF modname = <<"microbenthos">>
    THEN {"Entity", "DomainEntity", "SedimentDBLDomain", "ExprProcess"}
    ELSE IF modname = <<"microbenthos", "process">> THEN {"ExprProcess"}
    ELSE IF modname = <<"microbenthos", "domain">> THEN {"SedimentDBLDomain"}
    ELSE {}

\* hasattr(inst, 'post_init'): Entity defines it, SedimentDBLDomain is no
\* Entity.
HasPostInit(name) == name # "SedimentDBLDomain"

\* The cells of the arrays processes are evaluated on; a number is the
\* array that holds it in every cell.
EvalCells == {0, 1}

\* F(v), with v computed once however often F reads it.
Once(F(_), v) == CHOOSE out \in {F(x) : x \in {v}} : TRUE

RECURSIVE ExprProcess(_)
RECURSIVE add_responses(_, _, _)
RECURSIVE from_params(_, _, _)
RECURSIVE from_dict(_)
RECURSIVE evaluate(_, _, _, _)
RECURSIVE evaluate_responses(_, _, _, _, _)

\* _lambdify(expr, args): the exception raised.  'not expr' is true of zero;
\* mismatched is the arguments that are no symbol of the expression.
lambdify(expr, args) ==
    IF expr.coef = 0 THEN "ValueError"
    ELSE IF args \ expr.syms # {} THEN "ValueError"
    ELSE "ok"

\* CLS(**init_params): the exception raised and, of an ExprProcess, the
\* object built.  Entity and DomainEntity take a logger and nothing else;
\* the arguments of SedimentDBLDomain have defaults, those of ExprProcess
\* (formula, varnames) have none.
Construct(name, init_params) ==
    LET given == DOMAIN init_params
        arg(k, default) == IF k \in given THEN init_params[k] ELSE default
        done(x) == [result |-> x, proc |-> NoProc]
    IN  IF name = "ExprProcess"
        THEN IF {"formula", "varnames"} \subseteq given
                    /\ given \subseteq {"formula", "varnames", "params",
                                        "responses", "logger"}
             THEN ExprProcess(init_params)
             ELSE done("TypeError")
        ELSE IF name = "SedimentDBLDomain"
        THEN IF given \subseteq {"cell_size", "sediment_length", "dbl_length",
                                 "porosity"}
             THEN done(SedimentDBLDomain(
                           arg("cell_size", DefaultCellSize),
                           arg("sediment_length", DefaultSedimentLength),
                           arg("dbl_length", DefaultDblLength),
                           arg("porosity", DefaultPorosity)).result)
             ELSE done("TypeError")
        ELSE IF given \subseteq {"logger"} THEN done("ok")
        ELSE done("TypeError")

\* Entity.from_params(cls, init_params, post_params): the exception raised,
\* the class found, the calls made on the instance, in their order (the
\* constructor once it has returned, then post_init with its parameters),
\* and the instance when it is an ExprProcess.  With hooked false, line 62
\* (the call of post_init) is left out.
from_params_with(path, init_params, post_params, hooked) ==
    LET found == rsplit(path)
        fail(x) == [result |-> x, cls |-> None, events |-> <<>>,
                    proc |-> NoProc]
        \* post_params = post_params or {}
        post == IF Falsy(post_params) THEN Mapping(EmptyDict) ELSE post_params
        hook == IF hooked /\ HasPostInit(found.name)
                THEN <<[ev |-> "post_init", cls |-> found.name, params |-> post]>>
                ELSE <<>>
        made(inst) ==
            IF inst.result # "ok" THEN fail(inst.result)
            ELSE [result |-> "ok", cls |-> found.name,
                  events |-> <<[ev |-> "__init__", cls |-> found.name,
                                params |-> PyNone]>> \o hook,
                  proc |-> inst.proc]
    IN  IF found.name \notin ModuleAttrs(found.modname) THEN fail("TypeError")
        ELSE Once(made, Construct(found.name, init_params))

\* from_params that never calls the hook.
from_params_without_hook(path, init_params, post_params) ==
    from_params_with(path, init_params, post_params, FALSE)

\* Entity.from_params(cls, init_params, post_params)
from_params(path, init_params, post_params) ==
    from_params_with(path, init_params, post_params, TRUE)

\* from_dict that reads cdict['cls'] and leaves it in the dict.
from_dict_keeps_cls(cdict) ==
    IF "cls" \notin DOMAIN cdict
    THEN [result |-> "KeyError", cls |-> None, events |-> <<>>,
          proc |-> NoProc, cdict |-> cdict]
    ELSE LET with(r) == [result |-> r.result, cls |-> r.cls,
                         events |-> r.events, proc |-> r.proc,
                         cdict |-> cdict]
         IN  Once(with,
                  from_params(
                      cdict.cls,
                      IF "init_params" \in DOMAIN cdict THEN cdict.init_params
                      ELSE EmptyDict,
                      IF "post_params" \in DOMAIN cdict THEN cdict.post_params
                      ELSE Mapping(EmptyDict)))

\* Entity.from_dict(cdict): what from_params gives, and the dict as the call
\* leaves it: cdict.pop('cls') takes the key out before anything else, and
\* init_params and post_params are read with get.
from_dict(cdict) ==
    IF "cls" \notin DOMAIN cdict
    THEN [result |-> "KeyError", cls |-> None, events |-> <<>>,
          proc |-> NoProc, cdict |-> cdict]
    ELSE LET with(r) == [result |-> r.result, cls |-> r.cls,
                         events |-> r.events, proc |-> r.proc,
                         cdict |-> [k \in DOMAIN cdict \ {"cls"} |-> cdict[k]]]
         IN  Once(with,
                  from_params(
                      cdict.cls,
                      IF "init_params" \in DOMAIN cdict THEN cdict.init_params
                      ELSE EmptyDict,
                      IF "post_params" \in DOMAIN cdict THEN cdict.post_params
                      ELSE Mapping(EmptyDict)))

\* add_response that adds a new entry whatever the name.
add_response_appends(responses, name, cdict) ==
    LET set(made) ==
            IF made.result # "ok"
            THEN [result |-> made.result, responses |-> responses]
            ELSE [result |-> "ok",
                  responses |-> Append(responses,
                                       [name |-> name, proc |-> made.proc])]
    IN  Once(set, from_dict(cdict))

\* add_response(name, **params) on the mapping self.responses, an ordered
\* dict: from_dict(params) of the dict that holds the keyword arguments,
\* then self.responses[name] = response, which keeps the place of a name
\* that is there and puts a new name last.
add_response(responses, name, cdict) ==
    LET set(made) ==
            LET entry == [name |-> name, proc |-> made.proc]
            IN  IF made.result # "ok"
                THEN [result |-> made.result, responses |-> responses]
                ELSE IF name \in Names(responses)
                THEN [result |-> "ok",
                      responses |-> [k \in DOMAIN responses |->
                                        IF responses[k].name = name THEN entry
                                        ELSE responses[k]]]
                ELSE [result |-> "ok", responses |-> Append(responses, entry)]
    IN  Once(set, from_dict(cdict))

\* for k, v in responses.iteritems(): self.add_response(k, **v), from the
\* k-th response on, on the mapping built so far; the first exception ends
\* the loop.
add_responses(built, responses, k) ==
    IF k > Len(responses) THEN [result |-> "ok", responses |-> built]
    ELSE LET next(r) ==
                 IF r.result # "ok" THEN [result |-> r.result, responses |-> <<>>]
                 ELSE add_responses(r.responses, responses, k + 1)
         IN  Once(next, add_response(built, responses[k].name,
                                     responses[k].cdict))

\* ExprProcess(formula, varnames, params, responses): the exception raised
\* and the object built.
ExprProcess(init) ==
    LET fail(x) == [result |-> x, proc |-> NoProc]
        finish(built) ==
            LET pr == [exists |-> TRUE, formula |-> init.formula,
                       varnames |-> init.varnames, params |-> init.params,
                       responses |-> built.responses]
            IN  IF built.result # "ok" THEN fail(built.result)
                ELSE IF lambdify(init.formula, argnames(pr)) # "ok"
                THEN fail(lambdify(init.formula, argnames(pr)))
                ELSE [result |-> "ok", proc |-> pr]
    IN  IF ~init.formula.ok THEN fail("ValueError")
        ELSE Once(finish, add_responses(<<>>, init.responses, 1))

\* self.params as a mapping.
ParamsDict(params) ==
    Mapping([n \in Names(params) |->
                Num(params[CHOOSE i \in DOMAIN params :
                               params[i].name = n].value)])

\* P.get(name, None), of a mapping P.
Get(P, name) == IF name \in DOMAIN P.items THEN P.items[name] ELSE PyNone

\* EffectiveParams that reads a parameter P lacks from self.params.
EffectiveParams_fallback(pr, P) ==
    IF Falsy(P) \/ P.kind # "dict" THEN ParamsDict(pr.params)
    ELSE LET own == ParamsDict(pr.params).items
         IN  Mapping([n \in DOMAIN own \cup DOMAIN P.items |->
                         IF n \in DOMAIN P.items THEN P.items[n] ELSE own[n]])

\* 'if P is None: P = {}' and 'if not P: P = self.params': the object the
\* parameters and the responses' P are read from.
EffectiveParams(pr, P) == IF Falsy(P) THEN ParamsDict(pr.params) ELSE P

\* The product of the values that val gives the symbols of S.
RECURSIVE SymProduct(_, _)
SymProduct(S, val) ==
    IF S = {} THEN 1
    ELSE LET x == CHOOSE y \in S : TRUE
         IN  val[x] * SymProduct(S \ {x}, val)

\* reduce(operator.mul, values), elementwise, from the k-th value on.
RECURSIVE Product(_, _)
Product(values, k) ==
    IF k > Len(values) THEN [i \in EvalCells |-> 1]
    ELSE [i \in EvalCells |-> values[k][i] * Product(values, k + 1)[i]]

\* response.evaluate(D, P.get(resp_name, None)) for the responses from the
\* k-th on, each evaluated with full = nested.
evaluate_responses(responses, k, D, P, nested) ==
    IF k > Len(responses) THEN [result |-> "ok", values |-> <<>>]
    ELSE LET then(r) ==
                 LET more(rest) ==
                         IF rest.result # "ok" THEN rest
                         ELSE [result |-> "ok",
                               values |-> <<r.value>> \o rest.values]
                 IN  IF r.result # "ok"
                     THEN [result |-> r.result, values |-> <<>>]
                     ELSE Once(more, evaluate_responses(responses, k + 1, D, P,
                                                        nested))
         IN  Once(then, evaluate(responses[k].proc, D,
                                 Get(P, responses[k].name), nested))

\* evaluate, with the responses evaluated with full = nested.
\* The result carries the process as the call leaves it: no line of
\* evaluate assigns to an attribute of self, and P is only read.
evaluate_with(pr, D, P, full, nested) ==
    LET fail(x) == [result |-> x, value |-> [i \in EvalCells |-> 0],
                    proc |-> pr]
        Peff == EffectiveParams(pr, P)
        evaled == [i \in EvalCells |->
                      pr.formula.coef
                          * SymProduct(pr.formula.syms,
                                       [n \in pr.formula.syms |->
                                           IF n \in Range(pr.varnames)
                                           THEN D[n][i]
                                           ELSE Peff.items[n].num])]
        product(resp) ==
            IF resp.result # "ok" THEN fail(resp.result)
            ELSE [result |-> "ok",
                  value |-> [i \in EvalCells |->
                                evaled[i] * Product(resp.values, 1)[i]],
                  proc |-> pr]
    IN  \* varargs = [D[_] for _ in self.varnames]
        IF Range(pr.varnames) \ DOMAIN D # {} THEN fail("KeyError")
        \* pargs = [P[_] for _ in self.params], of a P that is a number
        ELSE IF Peff.kind # "dict" /\ pr.params # <<>> THEN fail("TypeError")
        ELSE IF Peff.kind = "dict" /\ Names(pr.params) \ DOMAIN Peff.items # {}
        THEN fail("KeyError")
        \* a symbol of the formula that is no argument of the lambda
        ELSE IF pr.formula.syms \ argnames(pr) # {} THEN fail("NameError")
        \* the product with a parameter that is no number
        ELSE IF \E n \in Names(pr.params) : Peff.items[n].kind # "num"
        THEN fail("TypeError")
        \* P.get(resp_name, None), of a P that is a number
        ELSE IF full /\ Peff.kind # "dict" /\ pr.responses # <<>>
        THEN fail("AttributeError")
        ELSE IF full /\ Peff.kind = "dict"
        THEN Once(product, evaluate_responses(pr.responses, 1, D, Peff, nested))
        ELSE [result |-> "ok", value |-> evaled, proc |-> pr]

\* evaluate that keeps the P it was given as the parameters of the process.
evaluate_keeps_P(pr, D, P, full) ==
    LET keep(r) ==
            IF r.result = "ok" /\ ~Falsy(P) /\ P.kind = "dict"
            THEN [r EXCEPT !.proc.params =
                     [k \in DOMAIN pr.params |->
                         [pr.params[k] EXCEPT
                             !.value = P.items[pr.params[k].name].num]]]
            ELSE r
    IN  Once(keep, evaluate_with(pr, D, P, full, TRUE))

\* evaluate that evaluates its responses without their own responses.
evaluate_shallow(pr, D, P, full) == evaluate_with(pr, D, P, full, FALSE)

\* ExprProcess.evaluate(D, P, full): the exception raised and the value.
evaluate(pr, D, P, full) == evaluate_with(pr, D, P, full, TRUE)

\* dependent_vars that reads the variables of its responses, not of theirs.
dependent_vars_direct(pr) ==
    Range(pr.varnames)
        \cup UNION {Range(pr.responses[k].proc.varnames) :
                       k \in DOMAIN pr.responses}

\* ExprProcess.dependent_vars(): set(vars), where vars is self.varnames
\* extended by the dependent_vars() of every response.
RECURSIVE dependent_vars(_)
dependent_vars(pr) ==
    Range(pr.varnames)
        \cup UNION {dependent_vars(pr.responses[k].proc) :
                       k \in DOMAIN pr.responses}

\* ------------------------------------------------------------- inputs

Ents == 1 .. NumEntities

\* DomainEntity(): the attributes of a new entity of the base class.
DomainEntity ==
    [cls |-> "DomainEntity", domain |-> None, name |-> None, var |-> NoVar,
     LOCs |-> FALSE,
     create_params |-> [value |-> NoValue, unit |-> None, hasOld |-> FALSE],
     constraints |-> <<>>, seed_params |-> EmptyDict]

\* Variable(name, create, constraints, seed): the attributes of a new
\* Variable.  LOCs tells whether self._LOCs exists, which setup() assigns.
Variable(name, create, constraints, seed_) ==
    [cls |-> "Variable", domain |-> None, name |-> name, var |-> NoVar,
     LOCs |-> FALSE,
     create_params |-> create, constraints |-> constraints,
     seed_params |-> seed_]

\* The entities the driver may build: one of the base class, a plain
\* variable, one whose seed names an unknown profile, one seeded linearly
\* and constrained in the DBL, and one named as the domain's own array.
EntityConfigs ==
    << DomainEntity,
       Variable("oxy", [value |-> Scalar(3), unit |-> "mol/l", hasOld |-> FALSE],
                <<>>, EmptyDict),
       Variable("oxy", [value |-> Scalar(3), unit |-> "mol/l", hasOld |-> TRUE],
                <<>>, [profile |-> "exp", params |-> EmptyDict]),
       Variable("oxy", [value |-> Scalar(3), unit |-> "mol/l", hasOld |-> TRUE],
                <<[loc |-> "dbl", value |-> Q(2, "mol/l")]>>,
                [profile |-> "linear",
                 params |-> [start |-> Q(0, None), stop |-> Q(99, None)]]),
       Variable("porosity", [value |-> Scalar(3), unit |-> None, hasOld |-> FALSE],
                <<>>, EmptyDict) >>

\* The rosters of entities: entities are interchangeable, so a roster lists
\* them in the order of EntityConfigs.
Rosters ==
    { [e \in Ents |-> EntityConfigs[idx[e]]] :
        idx \in { f \in [Ents -> 1 .. Len(EntityConfigs)] :
                    \A a, b \in Ents : a < b => f[a] <= f[b] } }

\* Geometries <<cell_size, sediment_length, dbl_length>> handed to the
\* constructor: ten cells and no DBL; ten and a half cells' length with two
\* and a half cells of DBL; a sediment of nine cells; a negative DBL.
Geometries ==
    LET cs == 10 * DefaultCellSize
    IN  { <<cs, MinSedimentCells * cs, 0>>,
          <<cs, MinSedimentCells * cs + cs \div 2, 2 * cs + cs \div 2>>,
          <<cs, (MinSedimentCells - 1) * cs, cs>>,
          <<cs, MinSedimentCells * cs, -cs>> }

\* The porosities handed to set_porosity: the two ends of the interval,
\* the lower end's inner neighbour, the default, one above the upper end.
Porosities ==
    {PorosityLo, PorosityLo + 1, DefaultPorosity, PorosityHi, PorosityHi + 1}

\* The porosities handed to the constructor.
InitPorosities == {DefaultPorosity, PorosityHi}

\* What direct callers of create_var hand in, <<name, value>>: no name; the
\* domain's own array; a new name with no value, with an array of ten
\* entries, with an array of one entry.
DirectCalls ==
    { <<"", NoValue>>, <<"porosity", NoValue>>, <<"oxy", NoValue>>,
      <<"oxy", Array(MinSedimentCells, 1)>>, <<"oxy", Array(1, 1)>> }

\* The create parameters of a Variable.
Create(value, unit, hasOld) ==
    [value |-> Scalar(value), unit |-> unit, hasOld |-> hasOld]

\* A constraint as a Variable keeps it: a location and a quantity.
Con(loc, value) == [loc |-> loc, value |-> value]

\* The parameters of a 'normal' seed.
Normal(loc, scale, coeff) ==
    [profile |-> "normal",
     params |-> [loc |-> loc, scale |-> scale, coeff |-> coeff]]

\* The Variables of the tests and their neighbours, all named "oxy".  The
\* numbers of one configuration are integers in a unit small enough to hold
\* it: 3.3 mol/l and 0.2e-3 mol/l are 33000 and 2 (ten-thousandths), and the
\* linear seed from 0 to 10 is 0 to 990, which the cell counts minus one of
\* Geometries (9 and 11) divide.
VariableConfigs ==
    << \* test_create_var
       Variable("oxy", Create(33000, "mol/l", FALSE), <<>>, EmptyDict),
       \* test_constrain: dbl; sediment, given in another unit; dbl +
       \* sediment + bottom; top
       Variable("oxy", Create(33000, "mol/l", FALSE),
                <<Con("dbl", Q(2, "mol/l"))>>, EmptyDict),
       Variable("oxy", Create(33000, "mol/l", FALSE),
                <<Con("sediment", Q(4000, "mol/m**3"))>>, EmptyDict),
       Variable("oxy", Create(33000, "mol/l", FALSE),
                <<Con("dbl", Q(2, None)), Con("sediment", Q(4, None)),
                  Con("bottom", Q(8, "mol/l"))>>, EmptyDict),
       Variable("oxy", Create(33000, "mol/l", FALSE),
                <<Con("top", Q(2, "mol/l"))>>, EmptyDict),
       \* a constraint in a unit of another dimension
       Variable("oxy", Create(33000, "mol/l", FALSE),
                <<Con("dbl", Q(1, "mol/s"))>>, EmptyDict),
       \* seeds: an unknown profile; linear; linear without its stop
       Variable("oxy", Create(3, "mol/l", TRUE), <<>>,
                [profile |-> "exp", params |-> EmptyDict]),
       Variable("oxy", Create(3, "mol/l", TRUE), <<>>,
                [profile |-> "linear",
                 params |-> [start |-> Q(0, None), stop |-> Q(990, None)]]),
       Variable("oxy", Create(3, "mol/l", TRUE), <<>>,
                [profile |-> "linear", params |-> [start |-> Q(0, None)]]),
       \* a linear seed under a dbl constraint, and under a dbl and a
       \* sediment constraint, with the old value kept
       Variable("oxy", Create(3, "mol/l", TRUE),
                <<Con("dbl", Q(2, "mol/l"))>>,
                [profile |-> "linear",
                 params |-> [start |-> Q(0, None), stop |-> Q(990, None)]]),
       Variable("oxy", Create(3, "mol/l", TRUE),
                <<Con("dbl", Q(2, "mol/l")),
                  Con("sediment", Q(4000, "mol/m**3"))>>,
                [profile |-> "linear",
                 params |-> [start |-> Q(0, None), stop |-> Q(990, None)]]),
       \* test_seed_normal, its four cases, and an incompatible coeff with
       \* plain loc and scale
       Variable("oxy", Create(3, None, TRUE), <<>>,
                Normal(Q(3, None), Q(2, None), Q(1, None))),
       Variable("oxy", Create(3, None, TRUE), <<>>,
                Normal(Q(3, "mm"), Q(2, "mm"), Q(1, None))),
       Variable("oxy", Create(3, "mol/l", TRUE), <<>>,
                Normal(Q(3, "mm"), Q(2, "mm"), Q(1000, "mol/m**3"))),
       Variable("oxy", Create(3, "mol/l", TRUE), <<>>,
                Normal(Q(3, "mm"), Q(2, "mm"), Q(1, "mol/s"))),
       Variable("oxy", Create(3, "mol/l", TRUE), <<>>,
                Normal(Q(3, None), Q(2, None), Q(1, "mol/s"))) >>

\* One Variable of VariableConfigs, and entities of the base class.
SingleVariableRosters ==
    { [e \in Ents |-> IF e = 1 THEN VariableConfigs[k] ELSE DomainEntity] :
        k \in 1 .. Len(VariableConfigs) }

\* What direct callers of constrain() hand in, <<loc, value>>.
DirectConstraints ==
    { <<"dbl", Q(5, None)>>, <<"middle", Q(5, None)>>,
      <<"top", Q(5, "mol/s")>> }

\* What direct callers of seed() hand in, <<profile, params>>.
DirectSeeds ==
    { <<"linear", [start |-> Q(0, None), stop |-> Q(990, None)]>>,
      <<"linear", [start |-> Q(990, None), stop |-> Q(0, None)]>>,
      <<"cubic", EmptyDict>> }

\* What callers of check_constraints hand in: the cases of
\* test_constraints_check, PhysicalField values, a number, no pairs at all,
\* and a key given twice.
ConstraintArgs ==
    LET P(loc, val) == [loc |-> loc, val |-> val]
    IN  { Pairs(<<P("top", Number)>>),
          Pairs(<<P("sediment", Number)>>),
          Pairs(<<P("top", Number), P("bottom", Number)>>),
          Pairs(<<P("atop", Number), P("bottom", Number)>>),
          Pairs(<<P("unknown", Number)>>),
          NotPairs, NoConstraints, NumberArg,
          Pairs(<<P("top", List(2))>>),
          Pairs(<<P("top", Str)>>),
          Pairs(<<P("top", NumStr)>>),
          Pairs(<<P("top", List(1))>>),
          Pairs(<<P("dbl", PF), P("sediment", PFArray(1))>>),
          Pairs(<<P("sediment", PFArray(3))>>),
          Pairs(<<>>),
          Pairs(<<P("top", Str), P("top", Number)>>) }

\* A parameter, a response and the config dict of a response.
Param(name, value) == [name |-> name, value |-> value]
Response(name, cdict) == [name |-> name, cdict |-> cdict]
Cdict(init) == [cls |-> <<"ExprProcess">>, init_params |-> init]

\* An array of two cells.
Arr(x, y) == [i \in EvalCells |-> IF i = 0 THEN x ELSE y]

\* The processes a driver may build: 'a*b' with only a declared; 'a' with a
\* and c declared; 'a*k' with its parameter; '0'; a formula that does not
\* parse; '2*a' with one response; 'a*k' with two responses, one of which
\* has a response of its own; a process whose response cannot be built;
\* responses whose config has no class, or an unknown one; 'a*r' with a
\* parameter and a response both named r; 'a' whose response has a response
\* that depends on a variable, c, of its own.
ProcessInits ==
    LET leaf == InitParams(Formula(1, {"a", "m"}), <<"a">>,
                           <<Param("m", 5)>>, <<>>)
        bottom == InitParams(Formula(1, {"c", "m"}), <<"c">>,
                             <<Param("m", 5)>>, <<>>)
        mid == InitParams(Formula(1, {"b"}), <<"b">>, <<>>,
                          <<Response("r2", Cdict(leaf))>>)
        side == InitParams(Formula(3, {"b", "k2"}), <<"b">>,
                           <<Param("k2", 3)>>, <<>>)
        bad == InitParams(Formula(1, {"a"}), <<"a", "c">>, <<>>, <<>>)
        deep == InitParams(Formula(1, {"b"}), <<"b">>, <<>>,
                           <<Response("r2", Cdict(bottom))>>)
    IN  << InitParams(Formula(1, {"a", "b"}), <<"a">>, <<>>, <<>>),
           bad,
           InitParams(Formula(1, {"a", "k"}), <<"a">>, <<Param("k", 2)>>, <<>>),
           InitParams(Formula(0, {}), <<>>, <<>>, <<>>),
           InitParams(BadFormula, <<"a">>, <<>>, <<>>),
           InitParams(Formula(2, {"a"}), <<"a">>, <<>>,
                      <<Response("r", Cdict(side))>>),
           InitParams(Formula(1, {"a", "k"}), <<"a">>, <<Param("k", 2)>>,
                      <<Response("r1", Cdict(mid)), Response("r", Cdict(side))>>),
           InitParams(Formula(1, {"a"}), <<"a">>, <<>>,
                      <<Response("r", Cdict(bad))>>),
           InitParams(Formula(1, {"a"}), <<"a">>, <<>>,
                      <<Response("r", [init_params |-> side])>>),
           InitParams(Formula(1, {"a"}), <<"a">>, <<>>,
                      <<Response("r", [cls |-> <<"NoSuchProcess">>,
                                       init_params |-> side])>>),
           InitParams(Formula(1, {"a", "r"}), <<"a">>, <<Param("r", 2)>>,
                      <<Response("r", Cdict(side))>>),
           InitParams(Formula(1, {"a"}), <<"a">>, <<>>,
                      <<Response("r1", Cdict(deep))>>) >>

\* The variables handed to evaluate as D: name -> array; the last lacks b.
EvalDomains ==
    << [a |-> Arr(1, 2), b |-> Arr(3, 4)],
       [a |-> Arr(2, 0), b |-> Arr(1, 5)],
       [a |-> Arr(3, 1), b |-> Arr(2, 2), c |-> Arr(4, 1)],
       [a |-> Arr(1, 2)] >>

\* The parameters handed to evaluate as P: None; an empty mapping; the
\* parent's own; the parent's and overrides for its responses, nested;
\* overrides for a response only; the parent's and, for a response, a mapping
\* without that response's parameter.
EvalParams ==
    << PyNone,
       Mapping(EmptyDict),
       Mapping([k |-> Num(7)]),
       Mapping([k |-> Num(7), r |-> Mapping([k2 |-> Num(4)]),
                r1 |-> Mapping([r2 |-> Mapping([m |-> Num(9)])])]),
       Mapping([r |-> Mapping([k2 |-> Num(4)])]),
       Mapping([k |-> Num(7), r |-> Mapping([z |-> Num(1)])]) >>

\* The responses a driver adds to a process it has built, by name: '3*b*k2',
\* '2*b' by its full path, a config without a class, and one whose process
\* cannot be built.
ResponseNames == {"r", "s"}
ResponseConfigs ==
    << Cdict(InitParams(Formula(3, {"b", "k2"}), <<"b">>,
                        <<Param("k2", 3)>>, <<>>)),
       [cls |-> <<"microbenthos", "process", "ExprProcess">>,
        init_params |-> InitParams(Formula(2, {"b"}), <<"b">>, <<>>, <<>>)],
       [init_params |-> InitParams(Formula(2, {"b"}), <<"b">>, <<>>, <<>>)],
       Cdict(InitParams(Formula(1, {"a"}), <<"a", "c">>, <<>>, <<>>)) >>

\* The config dicts a driver hands to from_dict: an entity with parameters
\* for post_init; a process by its full path; no class; a module that is not
\* there; a class that is not in its module; a bare name that is not in
\* microbenthos; the domain, which has no post_init; a domain whose
\* constructor raises; an entity whose constructor takes no such argument; a
\* process without init_params; an entity whose post_params is None; a
\* process whose formula is zero.
Configs ==
    LET p == InitParams(Formula(3, {"b", "k2"}), <<"b">>,
                        <<Param("k2", 3)>>, <<>>)
    IN  << [cls |-> <<"DomainEntity">>, init_params |-> EmptyDict,
            post_params |-> Mapping([x |-> Num(1)])],
           [cls |-> <<"microbenthos", "process", "ExprProcess">>,
            init_params |-> p],
           [init_params |-> p, post_params |-> Mapping([x |-> Num(1)])],
           [cls |-> <<"microbenthos", "nowhere", "ExprProcess">>,
            init_params |-> p],
           [cls |-> <<"microbenthos", "process", "DomainEntity">>,
            init_params |-> EmptyDict],
           [cls |-> <<"NoSuchProcess">>, init_params |-> p],
           [cls |-> <<"SedimentDBLDomain">>,
            init_params |-> [cell_size |-> 10 * DefaultCellSize],
            post_params |-> Mapping([x |-> Num(1)])],
           [cls |-> <<"microbenthos", "domain", "SedimentDBLDomain">>,
            init_params |-> [porosity |-> DBLPorosity]],
           [cls |-> <<"DomainEntity">>, init_params |-> [domain |-> "D"]],
           [cls |-> <<"ExprProcess">>],
           [cls |-> <<"Entity">>, post_params |-> PyNone],
           [cls |-> <<"ExprProcess">>,
            init_params |-> InitParams(Formula(0, {}), <<>>, <<>>, <<>>),
            post_params |-> Mapping([x |-> Num(1)])] >>

\* The calls of from_params a driver makes: the class and init_params of a
\* config that has both, with post_params None, empty, or with an entry.
WithClass == {k \in DOMAIN Configs :
                 {"cls", "init_params"} \subseteq DOMAIN Configs[k]}
PostParams == <<PyNone, Mapping(EmptyDict), Mapping([y |-> Num(2)])>>

\* ------------------------------------------------------------ actions

\* The record of a call; steps is the steps a setup() started, in order.
Call(op, e, arg, result, ret) ==
    [op |-> op, ent |-> e, arg |-> arg, result |-> result, ret |-> ret,
     steps |-> <<>>]

\* D = SedimentDBLDomain(cell_size=cs, sediment_length=sl, dbl_length=dl,
\* porosity=por)
DomainInit(cs, sl, dl, por) ==
    /\ d_pc = "new"
    /\ LET r == SedimentDBLDomain(cs, sl, dl, por)
       IN  /\ d_pc' = IF r.result = "ok" THEN "ready" ELSE "failed"
           /\ mesh' = r.mesh
           /\ depths_um' = r.depths_um
           /\ cell_size' = r.cell_size
           /\ sediment_length' = r.sediment_length
           /\ DBL_length' = r.DBL_length
           /\ sediment_Ncells' = r.sediment_Ncells
           /\ DBL_Ncells' = r.DBL_Ncells
           /\ domain_Ncells' = r.domain_Ncells
           /\ idx_surface' = r.idx_surface
           /\ sediment_porosity' = r.sediment_porosity
           /\ VARS' = r.VARS
           /\ cellvars' = r.cellvars
           /\ last' = Call("init", 0, <<cs, sl, dl, por>>, r.result, NoVar)
    /\ UNCHANGED <<ent, first_setup, proc, config_dict, hook_runs>>

\* D.create_var(name, value=value), by a caller that is no modelled entity.
CreateVar(name, value) ==
    /\ d_pc \in {"new", "ready"}
    /\ LET r == create_var(mesh, VARS, cellvars, name, value, None, FALSE)
       IN  /\ VARS' = r.VARS
           /\ cellvars' = r.cellvars
           /\ last' = Call("create_var", 0, <<name, value>>, r.result, r.var)
    /\ UNCHANGED <<d_pc, mesh, depths_um, cell_size, sediment_length,
                   DBL_length, sediment_Ncells, DBL_Ncells, domain_Ncells,
                   idx_surface, sediment_porosity, ent, first_setup, proc, config_dict, hook_runs>>

\* D.set_porosity(porosity)
SetPorosity(porosity) ==
    /\ d_pc \in {"new", "ready"}
    /\ LET r == set_porosity(mesh, VARS, cellvars, idx_surface,
                             sediment_porosity, porosity)
       IN  /\ VARS' = r.VARS
           /\ cellvars' = r.cellvars
           /\ sediment_porosity' = r.sediment_porosity
           /\ last' = Call("set_porosity", 0, porosity, r.result, r.var)
    /\ UNCHANGED <<d_pc, mesh, depths_um, cell_size, sediment_length,
                   DBL_length, sediment_Ncells, DBL_Ncells, domain_Ncells,
                   idx_surface, ent, first_setup, proc, config_dict, hook_runs>>

\* ent[e].domain = d (or ent[e].set_domain(d)): what the call does to the
\* program's state.  A reference to D exists once its constructor has
\* returned.
SetDomainCall(e, d) ==
    /\ d = "D" => d_pc = "ready"
    /\ LET r == domain_setter(ent[e].domain, d)
       IN  /\ ent' = [ent EXCEPT ![e].domain = r.domain]
           /\ last' = Call("set_domain", e, d, r.result, NoVar)
    /\ UNCHANGED <<domvars, first_setup, proc, config_dict>>

\* ent[e].domain = d
SetDomain(e, d) ==
    /\ SetDomainCall(e, d)
    /\ UNCHANGED hook_runs

\* ent[e].domain = d, with the runs of on_domain_set recorded.
SetDomainHooked(e, d) ==
    /\ Len(hook_runs[e]) < MaxHookRuns
    /\ SetDomainCall(e, d)
    /\ hook_runs' = [hook_runs EXCEPT
                         ![e] = @ \o domain_setter(ent[e].domain, d).hook]

\* ent[e].setup(): what the call does to the program's state.
SetupCall(e) ==
    /\ LET r == setup(ent[e], mesh, VARS, cellvars, idx_surface)
       IN  /\ VARS' = r.VARS
           /\ cellvars' = r.cellvars
           /\ ent' = [ent EXCEPT ![e].var = r.var, ![e].LOCs = r.LOCs]
           /\ last' = [Call("setup", e, None, r.result, r.var)
                           EXCEPT !.steps = r.steps]
    /\ UNCHANGED <<d_pc, mesh, depths_um, cell_size, sediment_length,
                   DBL_length, sediment_Ncells, DBL_Ncells, domain_Ncells,
                   idx_surface, sediment_porosity, proc, config_dict, hook_runs>>

\* ent[e].setup()
Setup(e) ==
    /\ SetupCall(e)
    /\ UNCHANGED first_setup

\* ent[e].setup(), with the outcome of the entity's first call with a domain
\* recorded.
SetupRecorded(e) ==
    /\ SetupCall(e)
    /\ first_setup' = IF first_setup[e] = None /\ ent[e].domain # None
                      THEN [first_setup EXCEPT ![e] = last'.result]
                      ELSE first_setup

\* ent[e].constrain(loc, value), called directly.
Constrain(e, loc, value) ==
    /\ ent[e].cls = "Variable"
    /\ ent[e].var # NoVar =>
           Len(cellvars[ent[e].var].constraints)
               + Len(cellvars[ent[e].var].faceConstraints) < MaxConstraints
    /\ LET r == Variable_constrain(ent[e], cellvars, loc, value,
                                   mesh.nx, idx_surface)
       IN  /\ cellvars' = r.cellvars
           /\ last' = Call("constrain", e, <<loc, value>>, r.result, ent[e].var)
    /\ UNCHANGED <<d_pc, mesh, depths_um, cell_size, sediment_length,
                   DBL_length, sediment_Ncells, DBL_Ncells, domain_Ncells,
                   idx_surface, sediment_porosity, VARS, ent, first_setup, proc, config_dict, hook_runs>>

\* ent[e].seed(profile, **params), called directly.
Seed(e, profile, params) ==
    /\ ent[e].cls = "Variable"
    /\ LET r == Variable_seed(ent[e], cellvars, profile, params)
       IN  /\ cellvars' = r.cellvars
           /\ last' = Call("seed", e, <<profile, params>>, r.result, ent[e].var)
    /\ UNCHANGED <<d_pc, mesh, depths_um, cell_size, sediment_length,
                   DBL_length, sediment_Ncells, DBL_Ncells, domain_Ncells,
                   idx_surface, sediment_porosity, VARS, ent, first_setup, proc, config_dict, hook_runs>>

\* Variable.check_constraints(c), a static method.
CheckConstraints(c) ==
    /\ last' = Call("check_constraints", 0, c, check_constraints(c), NoVar)
    /\ UNCHANGED <<domvars, ent, first_setup, proc, config_dict, hook_runs>>

\* proc = ExprProcess(**init)
NewProcess(init) ==
    /\ ~proc.exists
    /\ LET r == ExprProcess(init)
       IN  /\ proc' = r.proc
           /\ last' = Call("ExprProcess", 0, init, r.result, NoVar)
    /\ UNCHANGED <<domvars, ent, first_setup, config_dict, hook_runs>>

\* proc.evaluate(D, P, full): the value is kept in last.ret.
Evaluate(D, P, full) ==
    /\ proc.exists
    /\ LET r == evaluate(proc, D, P, full)
       IN  /\ proc' = r.proc
           /\ last' = Call("evaluate", 0, <<D, P, full>>, r.result, r.value)
    /\ UNCHANGED <<domvars, ent, first_setup, config_dict, hook_runs>>

\* proc.add_response(name, **cdict)
AddResponse(name, cdict) ==
    /\ proc.exists
    /\ LET r == add_response(proc.responses, name, cdict)
       IN  /\ proc' = [proc EXCEPT !.responses = r.responses]
           /\ last' = Call("add_response", 0, <<name, cdict>>, r.result, NoVar)
    /\ UNCHANGED <<domvars, ent, first_setup, config_dict, hook_runs>>

\* Entity.from_params(cls=path, init_params=init_params,
\* post_params=post_params): what it did is kept in last.ret.
FromParams(path, init_params, post_params) ==
    /\ LET r == from_params(path, init_params, post_params)
       IN  last' = Call("from_params", 0, <<path, init_params, post_params>>,
                        r.result, r)
    /\ UNCHANGED <<domvars, ent, first_setup, proc, config_dict, hook_runs>>

\* Entity.from_dict(config_dict), of the driver's dict object.
FromDict ==
    /\ LET r == from_dict(config_dict)
       IN  /\ config_dict' = r.cdict
           /\ last' = Call("from_dict", 0, config_dict, r.result, r)
    /\ UNCHANGED <<domvars, ent, first_setup, proc, hook_runs>>

\* proc.dependent_vars(): the set is kept in last.ret.
DependentVars ==
    /\ proc.exists
    /\ last' = Call("dependent_vars", 0, None, "ok", dependent_vars(proc))
    /\ UNCHANGED <<domvars, ent, first_setup, proc, config_dict, hook_runs>>

\* ------------------------------------------------------ specifications

\* The domain object after lines 37-40 of its constructor.
InitDomain ==
    /\ d_pc = "new"
    /\ mesh = NoMesh
    /\ depths_um = NoArray
    /\ cell_size = NoInt
    /\ sediment_length = NoInt
    /\ DBL_length = NoInt
    /\ sediment_Ncells = NoInt
    /\ DBL_Ncells = NoInt
    /\ domain_Ncells = NoInt
    /\ idx_surface = NoInt
    /\ sediment_porosity = NoInt
    /\ VARS = EmptyDict
    /\ cellvars = <<>>
    /\ first_setup = [e \in Ents |-> None]
    /\ proc = NoProc
    /\ hook_runs = [e \in Ents |-> <<>>]
    /\ last = Call("none", 0, None, "ok", NoVar)

Init ==
    /\ InitDomain
    /\ ent \in Rosters
    /\ config_dict = EmptyDict

Next ==
    \/ \E g \in Geometries, por \in InitPorosities :
           DomainInit(g[1], g[2], g[3], por)
    \/ \E c \in DirectCalls : CreateVar(c[1], c[2])
    \/ \E porosity \in Porosities : SetPorosity(porosity)
    \/ \E e \in Ents, d \in DomainObjs \cup {None} : SetDomain(e, d)
    \/ \E e \in Ents : Setup(e)

Spec == Init /\ [][Next]_vars

\* The constructor alone, over more geometries: cell sizes that do and do
\* not divide the lengths, the default geometry among them.
WideGeometries ==
    { <<cs, sl, dl>> :
        cs \in {DefaultCellSize, 3 * DefaultCellSize, 10 * DefaultCellSize},
        sl \in {DefaultSedimentLength, DefaultSedimentLength + 5 * DefaultCellSize,
                9 * DefaultCellSize, 3 * DefaultSedimentLength - DefaultCellSize},
        dl \in {0, DefaultDblLength, 25 * DefaultCellSize, -DefaultDblLength} }

InitGeometry ==
    /\ InitDomain
    /\ ent = [e \in Ents |-> DomainEntity]
    /\ config_dict = EmptyDict

NextGeometry ==
    \/ \E g \in WideGeometries, por \in InitPorosities :
           DomainInit(g[1], g[2], g[3], por)
    \/ \E c \in DirectCalls : CreateVar(c[1], c[2])
    \/ \E porosity \in Porosities : SetPorosity(porosity)

SpecGeometry == InitGeometry /\ [][NextGeometry]_vars

\* Variables only, with the outcome of each entity's first setup() recorded.
VariableRosters == {r \in Rosters : \A e \in Ents : r[e].cls = "Variable"}

InitSetups ==
    /\ InitDomain
    /\ ent \in VariableRosters
    /\ config_dict = EmptyDict

NextSetups ==
    \/ \E g \in Geometries, por \in InitPorosities :
           DomainInit(g[1], g[2], g[3], por)
    \/ \E c \in DirectCalls : CreateVar(c[1], c[2])
    \/ \E e \in Ents : SetDomain(e, "D")
    \/ \E e \in Ents : SetupRecorded(e)

SpecSetups == InitSetups /\ [][NextSetups]_vars

\* One Variable from its construction on: attached, set up, and constrained
\* and seeded by direct calls.
InitVariable ==
    /\ InitDomain
    /\ ent \in SingleVariableRosters
    /\ config_dict = EmptyDict

NextVariable ==
    \/ \E g \in Geometries : DomainInit(g[1], g[2], g[3], DefaultPorosity)
    \/ \E e \in Ents : SetDomain(e, "D")
    \/ \E e \in Ents : Setup(e)
    \/ \E e \in Ents, c \in DirectConstraints : Constrain(e, c[1], c[2])
    \/ \E e \in Ents, sd \in DirectSeeds : Seed(e, sd[1], sd[2])
    \/ \E c \in ConstraintArgs : CheckConstraints(c)

SpecVariable == InitVariable /\ [][NextVariable]_vars

\* One ExprProcess: its construction and its evaluations.
InitProcess ==
    /\ InitDomain
    /\ ent = [e \in Ents |-> DomainEntity]
    /\ config_dict = EmptyDict

NextProcess ==
    \/ \E k \in DOMAIN ProcessInits : NewProcess(ProcessInits[k])
    \/ \E d \in DOMAIN EvalDomains, q \in DOMAIN EvalParams, full \in BOOLEAN :
           Evaluate(EvalDomains[d], EvalParams[q], full)
    \/ DependentVars
    \/ \E name \in ResponseNames, k \in DOMAIN ResponseConfigs :
           AddResponse(name, ResponseConfigs[k])

SpecProcess == InitProcess /\ [][NextProcess]_vars

\* Entities built from configuration: from_dict on the driver's dict, again
\* and again, and from_params.
InitConfig ==
    /\ InitDomain
    /\ ent = [e \in Ents |-> DomainEntity]
    /\ \E k \in DOMAIN Configs : config_dict = Configs[k]

NextConfig ==
    \/ FromDict
    \/ \E k \in WithClass, q \in DOMAIN PostParams :
           FromParams(Configs[k].cls, Configs[k].init_params, PostParams[q])

SpecConfig == InitConfig /\ [][NextConfig]_vars

\* Entities and the domains assigned to them, with the runs of
\* on_domain_set recorded.
InitAttach ==
    /\ InitDomain
    /\ ent \in Rosters
    /\ config_dict = EmptyDict

NextAttach ==
    \/ \E g \in Geometries : DomainInit(g[1], g[2], g[3], DefaultPorosity)
    \/ \E e \in Ents, d \in DomainObjs \cup {None} : SetDomainHooked(e, d)

SpecAttach == InitAttach /\ [][NextAttach]_vars

\* ================================================================ claims

\* The step just taken was the call op on entity e (every action writes
\* last', and a step that changes the state is the call last' names).
Did(op, e) == last'.op = op /\ last'.ent = e

\* ---- C1.  The domain reference is write-once: once a non-None domain has
\* been assigned to an entity, every later assignment of a non-None domain
\* raises RuntimeError and the entity's domain is still the first one.
C1_WriteOnce ==
    [][\A e \in Ents :
          (Did("set_domain", e) /\ ent[e].domain # None /\ last'.arg # None)
              => (last'.result = "RuntimeError"
                  /\ ent'[e].domain = ent[e].domain)]_vars

\* ---- C2.  Assigning None as the domain never raises and changes nothing,
\* whether the entity is unattached or attached, and no step takes an
\* entity from attached back to unattached.
C2_NoneIsNoOp ==
    [][\A e \in Ents :
          /\ (Did("set_domain", e) /\ last'.arg = None)
                 => (last'.result = "ok" /\ ent' = ent /\ UNCHANGED domvars)
          /\ ent[e].domain # None => ent'[e].domain # None]_vars

\* C2's case: None was assigned to an entity attached to D, which it still is.
C2_Witness ==
    /\ last.op = "set_domain"
    /\ last.arg = None
    /\ last.result = "ok"
    /\ ent[last.ent].domain = "D"

C5_CreateVar ==
    [][Did("create_var", 0) =>
          LET name == last'.arg[1]
              value == last'.arg[2]
              result == last'.result
              noMesh == mesh = NoMesh
              noName == name = ""
              taken == name \in DOMAIN VARS
              badShape == value.kind = "array" /\ value.n # domain_Ncells
          IN  /\ (noMesh \/ noName \/ taken \/ badShape) => result # "ok"
              /\ noMesh => result = "RuntimeError"
              /\ (~noMesh /\ noName) => result = "ValueError"
              /\ (~noMesh /\ ~noName /\ taken) => result = "RuntimeError"
              /\ (~noMesh /\ ~noName /\ ~taken /\ badShape)
                     => result = "ValueError"
              /\ result # "ok" => (VARS' = VARS /\ cellvars' = cellvars)
              /\ result = "ok"
                     => /\ name \in DOMAIN VARS'
                        /\ VARS'[name] = last'.ret
                        /\ DOMAIN cellvars'[last'.ret].value
                               = 0 .. domain_Ncells - 1]_vars

\* C5's case: on a constructed domain, a new name with an array of the
\* wrong shape was refused.
C5_Witness ==
    /\ last.op = "create_var"
    /\ d_pc = "ready"
    /\ last.arg[1] \notin DOMAIN VARS
    /\ last.arg[1] # ""
    /\ last.arg[2].kind = "array"
    /\ last.result = "ValueError"

\* ---- C6.  Over every sequence of create_var and set_porosity calls (and
\* of the setups that call create_var) the registered names only grow, and
\* a registered name stays bound to the same array object.
C6_RegistryGrows ==
    [][/\ \A n \in DOMAIN VARS : n \in DOMAIN VARS' /\ VARS'[n] = VARS[n]
       /\ Len(cellvars') >= Len(cellvars)
       /\ \A i \in 1 .. Len(cellvars) : cellvars'[i].name = cellvars[i].name]_vars

\* C6's case: set_porosity has run again on a registry that holds a second
\* name.
C6_Witness ==
    /\ last.op = "set_porosity"
    /\ last.result = "ok"
    /\ DOMAIN VARS = {"porosity", "oxy"}
    /\ sediment_porosity # DefaultPorosity

\* Two Variables of one name, both attached to D.
SameName(a, b) ==
    /\ a # b
    /\ ent[a].cls = "Variable" /\ ent[b].cls = "Variable"
    /\ ent[a].name = ent[b].name
    /\ ent[a].domain = "D" /\ ent[b].domain = "D"

\* ---- C7, as claimed.  When two Variables of one name are attached to the
\* same domain and both are set up, exactly one setup succeeds: the other
\* fails with RuntimeError, the registry entry is the first entity's array
\* and the failing entity's var stays None.
C7_SingleWriter ==
    \A a, b \in Ents :
        (SameName(a, b) /\ first_setup[a] # None /\ first_setup[b] # None)
            => \E w \in {a, b} :
                   LET l == IF w = a THEN b ELSE a
                   IN  /\ first_setup[w] = "ok"
                       /\ first_setup[l] = "RuntimeError"
                       /\ ent[w].name \in DOMAIN VARS
                       /\ VARS[ent[w].name] = ent[w].var
                       /\ ent[l].var = NoVar

\* ---- C7, amended.  When two Variables of one name are attached to the
\* same domain, at most one setup succeeds; and once one entity's setup
\* has registered its array under the name, the other's setup fails with
\* RuntimeError, the registry entry is still the first entity's array and
\* the failing entity's var stays None.
C7_SingleWriter_Amended ==
    [][\A a, b \in Ents :
          SameName(a, b)
              => /\ ~(first_setup'[a] = "ok" /\ first_setup'[b] = "ok")
                 /\ (Did("setup", b) /\ ent[a].var # NoVar)
                        => /\ last'.result = "RuntimeError"
                           /\ VARS' = VARS
                           /\ VARS'[ent[a].name] = ent[a].var
                           /\ ent'[a].var = ent[a].var
                           /\ ent'[b].var = NoVar]_vars

\* C7's case: after one entity's setup succeeded, the setup of the other
\* entity of that name was refused.
C7_Witness ==
    /\ last.op = "setup"
    /\ last.result = "RuntimeError"
    /\ \E a \in Ents :
           /\ SameName(a, last.ent)
           /\ first_setup[a] = "ok"
           /\ VARS[ent[a].name] = ent[a].var
           /\ ent[last.ent].var = NoVar

\* The porosity array of a constructed domain: 1.0 above the surface index,
\* the sediment porosity from it on, which lies inside the interval.
PorosityShape ==
    d_pc = "ready" =>
        /\ "porosity" \in DOMAIN VARS
        /\ PorosityLo < sediment_porosity /\ sediment_porosity < PorosityHi
        /\ LET P == CellValue(cellvars[VARS["porosity"]])
           IN  /\ DOMAIN P = 0 .. domain_Ncells - 1
               /\ \A i \in DOMAIN P :
                      P[i] = IF i < idx_surface THEN DBLPorosity
                             ELSE sediment_porosity

\* ---- C8.  In a constructed domain, after any calls, the porosity array is
\* 1.0 in the cells below idx_surface and the value last set with success
\* in the others; a further set_porosity with a valid value writes to the
\* registered array and registers none; the same call again changes nothing.
C8_Porosity ==
    [][/\ PorosityShape'
       /\ (d_pc = "ready" /\ Did("set_porosity", 0) /\ last'.result = "ok")
              => /\ sediment_porosity' = last'.arg
                 /\ VARS' = VARS
                 /\ Len(cellvars') = Len(cellvars)
                 /\ last'.ret = VARS["porosity"]
                 /\ LET again == set_porosity(mesh', VARS', cellvars',
                                              idx_surface', sediment_porosity',
                                              last'.arg)
                    IN  /\ again.result = "ok"
                        /\ again.VARS = VARS'
                        /\ again.cellvars = cellvars'
                        /\ again.sediment_porosity = sediment_porosity'
       /\ (d_pc = "ready" /\ ~(Did("set_porosity", 0) /\ last'.result = "ok"))
              => sediment_porosity' = sediment_porosity]_vars

\* C8's case: on a domain with DBL cells, set_porosity has replaced the
\* constructor's value.
C8_Witness ==
    /\ d_pc = "ready"
    /\ last.op = "set_porosity"
    /\ last.result = "ok"
    /\ idx_surface > 0
    /\ sediment_porosity = last.arg
    /\ sediment_porosity # DefaultPorosity

\* ---- C9.  set_porosity(v) with v outside the open interval, its ends
\* included, raises ValueError and leaves the porosity array,
\* sediment_porosity and the registry as they were.
C9_BadPorosity ==
    [][(Did("set_porosity", 0)
          /\ (last'.arg <= PorosityLo \/ last'.arg >= PorosityHi))
          => /\ last'.result = "ValueError"
             /\ VARS' = VARS
             /\ cellvars' = cellvars
             /\ sediment_porosity' = sediment_porosity]_vars

\* C9's case: the upper end of the interval was refused on a constructed
\* domain.
C9_Witness ==
    /\ d_pc = "ready"
    /\ last.op = "set_porosity"
    /\ last.arg = PorosityHi
    /\ last.result = "ValueError"
    /\ sediment_porosity = DefaultPorosity

\* ---- C10.  In every constructed domain the cell counts are the floors of
\* length / cell_size, at least 10 and at least 0, the stored lengths are
\* the counts times cell_size, idx_surface is DBL_Ncells and domain_Ncells
\* the sum; a sediment shorter than 10 cells or a negative DBL fails; the
\* default geometry gives 100, 10 and 10.
C10_Geometry ==
    /\ d_pc = "ready"
           => /\ sediment_Ncells >= 10
              /\ DBL_Ncells >= 0
              /\ sediment_length = sediment_Ncells * cell_size
              /\ DBL_length = DBL_Ncells * cell_size
              /\ idx_surface = DBL_Ncells
              /\ domain_Ncells = sediment_Ncells + DBL_Ncells
    /\ last.op = "init"
           => LET cs == last.arg[1]
                  sl == last.arg[2]
                  dl == last.arg[3]
              IN  /\ last.result = "ok"
                         => /\ d_pc = "ready"
                            /\ cell_size = cs
                            /\ sediment_Ncells * cs <= sl
                            /\ sl < (sediment_Ncells + 1) * cs
                            /\ DBL_Ncells * cs <= dl
                            /\ dl < (DBL_Ncells + 1) * cs
                  /\ (sl < 10 * cs \/ dl < 0)
                         => (last.result # "ok" /\ d_pc = "failed")
                  /\ (last.result = "ok" /\ cs = 100 /\ sl = 10000 /\ dl = 1000)
                         => /\ sediment_Ncells = 100
                            /\ DBL_Ncells = 10
                            /\ idx_surface = 10

\* C10's case: the default geometry has been built, next to one whose
\* lengths the cell size does not divide.
C10_Witness ==
    /\ last.op = "init"
    /\ last.result = "ok"
    /\ last.arg[1] = DefaultCellSize
    /\ last.arg[2] = DefaultSedimentLength
    /\ last.arg[3] = DefaultDblLength
    /\ sediment_Ncells = 100
    /\ idx_surface = 10

Plain(e) ==
    /\ ent[e].cls = "Variable"
    /\ DOMAIN ent[e].seed_params = {}
    /\ ent[e].constraints = <<>>

\* ---- C12.  For a Variable with no seed and no constraints attached to a
\* domain, setup() succeeds when the name is free, and after it the
\* entity's var is the very array registered in the domain under the
\* entity's name, it has one entry per mesh cell (DBL + sediment), and every
\* cell holds the value of the creation parameters.
C12_SetupCreates ==
    [][\A e \in Ents :
          (Did("setup", e) /\ Plain(e) /\ ent[e].domain = "D")
              => /\ ent[e].name \notin DOMAIN VARS => last'.result = "ok"
                 /\ last'.result = "ok"
                        => /\ ent'[e].var # NoVar
                           /\ ent[e].name \in DOMAIN VARS'
                           /\ ent'[e].var = VARS'[ent[e].name]
                           /\ LET cv == cellvars'[ent'[e].var]
                              IN  /\ cv.name = ent[e].name
                                  /\ cv.unit = ent[e].create_params.unit
                                  /\ DOMAIN CellValue(cv)
                                         = 0 .. DBL_Ncells + sediment_Ncells - 1
                                  /\ \A i \in DOMAIN CellValue(cv) :
                                         CellValue(cv)[i]
                                             = ent[e].create_params.value.base]_vars

\* C12's case: a plain Variable was set up on a domain with DBL cells.
C12_Witness ==
    /\ last.op = "setup"
    /\ last.result = "ok"
    /\ Plain(last.ent)
    /\ idx_surface > 0
    /\ ent[last.ent].var = VARS["oxy"]
    /\ cellvars[ent[last.ent].var].value[idx_surface] = 33000

\* The number a constraint's quantity is in the unit u.
InUnit(q, u) == IF q.unit = None THEN q.v ELSE inUnitsOf(q, u).v

\* ---- C13.  After Variable.setup() of a Variable without a seed, with a
\* 'dbl' constraint every cell with index < idx_surface holds the
\* constraint's value, with a 'sediment' constraint every cell with index
\* >= idx_surface holds it; the cells outside the constrained masks keep
\* the created value; and the array records as many cell constraints as
\* the configuration has 'dbl' and 'sediment' constraints.
C13_CellConstraints ==
    [][\A e \in Ents :
          (Did("setup", e) /\ last'.result = "ok" /\ ent[e].cls = "Variable"
             /\ DOMAIN ent[e].seed_params = {})
              => LET cv == cellvars'[ent'[e].var]
                     val == CellValue(cv)
                     cons == ent[e].constraints
                     has(loc) == \E k \in DOMAIN cons : cons[k].loc = loc
                 IN  /\ \A k \in DOMAIN cons, i \in DOMAIN val :
                            /\ (cons[k].loc = "dbl" /\ i < idx_surface)
                                   => val[i] = InUnit(cons[k].value, cv.unit)
                            /\ (cons[k].loc = "sediment" /\ i >= idx_surface)
                                   => val[i] = InUnit(cons[k].value, cv.unit)
                     /\ \A i \in DOMAIN val :
                            (/\ ~(has("dbl") /\ i < idx_surface)
                             /\ ~(has("sediment") /\ i >= idx_surface))
                                => val[i] = ent[e].create_params.value.base
                     /\ Len(cv.constraints)
                            = Cardinality({k \in DOMAIN cons :
                                             cons[k].loc \in {"dbl", "sediment"}})]_vars

\* C13's case: a sediment constraint given in another unit was applied
\* below a DBL that kept the created value.
C13_Witness ==
    /\ last.op = "setup"
    /\ last.result = "ok"
    /\ idx_surface > 0
    /\ ent[last.ent].constraints = <<Con("sediment", Q(4000, "mol/m**3"))>>
    /\ CellValue(cellvars[ent[last.ent].var])[idx_surface] = 4
    /\ CellValue(cellvars[ent[last.ent].var])[idx_surface - 1] = 33000
    /\ Len(cellvars[ent[last.ent].var].constraints) = 1

\* ---- C14.  For a Variable created with value 3.3 mol/l and a 'top'
\* constraint of 0.2e-3 mol/l (33000 and 2 ten-thousandths), after setup()
\* the first cell holds the constraint's value and every other cell holds
\* the created value.
C14_TopConstraint ==
    (/\ last.op = "setup"
     /\ last.result = "ok"
     /\ ent[last.ent].cls = "Variable"
     /\ ent[last.ent].create_params = Create(33000, "mol/l", FALSE)
     /\ ent[last.ent].constraints = <<Con("top", Q(2, "mol/l"))>>)
        => LET val == CellValue(cellvars[ent[last.ent].var])
           IN  /\ val[0] = 2
               /\ \A i \in DOMAIN val \ {0} : val[i] = 33000

\* ---- C15.  The array of a Variable is created at most once: constrain()
\* before the array exists raises RuntimeError; a setup() of a Variable
\* that has its array raises RuntimeError and changes neither the registry
\* nor the array; and var, once it refers to an array, refers to it for
\* good.
C15_CreatedOnce ==
    [][\A e \in Ents :
          /\ (Did("constrain", e) /\ ent[e].var = NoVar)
                 => (last'.result = "RuntimeError" /\ cellvars' = cellvars)
          /\ (Did("setup", e) /\ ent[e].cls = "Variable" /\ ent[e].var # NoVar)
                 => /\ last'.result = "RuntimeError"
                    /\ VARS' = VARS
                    /\ cellvars' = cellvars
          /\ ent[e].var # NoVar => ent'[e].var = ent[e].var
          /\ ent'[e].var # ent[e].var
                 => /\ Did("setup", e)
                    /\ ent'[e].var = Len(cellvars) + 1
                    /\ Len(cellvars') = Len(cellvars) + 1]_vars

\* C15's case: a second setup() of a Variable was refused, its first array
\* still registered.
C15_Witness ==
    /\ last.op = "setup"
    /\ last.result = "RuntimeError"
    /\ ent[last.ent].var # NoVar
    /\ ent[last.ent].LOCs
    /\ VARS[ent[last.ent].name] = ent[last.ent].var

\* ---- C16.  No partial application: when Variable.setup() of an attached
\* Variable fails for any reason (an unknown seed profile, a seed
\* coefficient or a constraint value in incompatible units, a missing seed
\* parameter), the registry and the entity's var are what they were before
\* the call.
C16_NoPartialSetup ==
    [][\A e \in Ents :
          (Did("setup", e) /\ ent[e].cls = "Variable" /\ ent[e].domain = "D"
             /\ last'.result # "ok")
              => (VARS' = VARS /\ ent'[e].var = ent[e].var)]_vars

\* The array val runs linearly from start to stop.
LinearProfile(val, start, stop) ==
    LET N == Cardinality(DOMAIN val)
    IN  /\ DOMAIN val = 0 .. N - 1
        /\ \A i \in DOMAIN val :
               val[i] * (N - 1) = start * (N - 1) + i * (stop - start)
        /\ val[0] = start
        /\ val[N - 1] = stop
        /\ \A i \in 1 .. N - 2 : val[i] - val[i - 1] = val[i + 1] - val[i]
        /\ start < stop => \A i \in 1 .. N - 1 : val[i - 1] < val[i]

\* ---- C17.  seed(profile='linear', start, stop) on an N-cell variable sets
\* cell i to start + i*(stop-start)/(N-1): the first cell is start, the
\* last is stop, consecutive differences are equal, and the values increase
\* strictly when start < stop (from 0 to 10 on 10 cells: ten evenly spaced
\* points, here 0 to 990 in steps of 110).  A profile other than 'linear'
\* and 'normal' raises ValueError and leaves the values as they were.
C17_LinearSeed ==
    [][\A e \in Ents :
          /\ (Did("seed", e) /\ last'.arg[1] = "linear" /\ last'.result = "ok")
                 => /\ LinearProfile(cellvars'[ent[e].var].value,
                                     last'.arg[2].start.v, last'.arg[2].stop.v)
                    /\ Cardinality(DOMAIN cellvars'[ent[e].var].value)
                           = domain_Ncells
                    /\ (domain_Ncells = 10
                          /\ last'.arg[2].start.v = 0 /\ last'.arg[2].stop.v = 990)
                           => cellvars'[ent[e].var].value
                                  = [i \in 0 .. 9 |-> 110 * i]
          /\ (Did("setup", e) /\ last'.result = "ok" /\ ent[e].cls = "Variable"
                /\ DOMAIN ent[e].seed_params # {}
                /\ ent[e].seed_params.profile = "linear")
                 => LinearProfile(cellvars'[ent'[e].var].value,
                                  ent[e].seed_params.params.start.v,
                                  ent[e].seed_params.params.stop.v)
          /\ (Did("seed", e) /\ last'.arg[1] \notin {"linear", "normal"})
                 => (last'.result = "ValueError" /\ cellvars' = cellvars)
          /\ (Did("setup", e) /\ ent[e].cls = "Variable" /\ ent[e].domain = "D"
                /\ ent[e].var = NoVar
                /\ DOMAIN ent[e].seed_params # {}
                /\ ent[e].seed_params.profile \notin {"linear", "normal"})
                 => /\ last'.result = "ValueError"
                    /\ \A i \in DOMAIN cellvars'[ent'[e].var].value :
                           cellvars'[ent'[e].var].value[i]
                               = ent[e].create_params.value.base]_vars

\* C17's case: a direct seed from 0 to 10 on ten cells.
C17_Witness ==
    /\ last.op = "seed"
    /\ last.result = "ok"
    /\ last.arg[2].start.v = 0
    /\ domain_Ncells = 10
    /\ cellvars[ent[last.ent].var].value[0] = 0
    /\ cellvars[ent[last.ent].var].value[1] = 110
    /\ cellvars[ent[last.ent].var].value[9] = 990

\* ---- C18.  Setting up a Variable with a 'normal' seed on a constructed
\* domain succeeds when loc and scale are lengths or plain numbers and
\* coeff is a plain number or carries a unit compatible with the
\* variable's unit; it fails with ValueError when coeff carries a unit
\* incompatible with the variable's unit.
C18_NormalSeed ==
    [][\A e \in Ents :
          (Did("setup", e) /\ ent[e].cls = "Variable" /\ ent[e].domain = "D"
             /\ ent[e].var = NoVar /\ ent[e].name \notin DOMAIN VARS
             /\ DOMAIN ent[e].seed_params # {}
             /\ ent[e].seed_params.profile = "normal")
              => LET prm == ent[e].seed_params.params
                     lengths == /\ Dim(prm.loc.unit) \in {"1", "length"}
                                /\ Dim(prm.scale.unit) \in {"1", "length"}
                     compatible == \/ prm.coeff.unit = None
                                   \/ Dim(prm.coeff.unit)
                                          = Dim(ent[e].create_params.unit)
                 IN  /\ (lengths /\ compatible) => last'.result = "ok"
                     /\ (lengths /\ ~compatible)
                            => last'.result = "ValueError"]_vars

\* ---- C19.  Construction of an ExprProcess succeeds only if the free
\* symbols of the parsed formula are exactly the varnames and the parameter
\* names together; otherwise it fails and leaves no process to evaluate,
\* both when the formula has an undeclared symbol ('a*b' with varnames
\* ['a']) and when a declared name does not occur in it ('a' with varnames
\* ['a', 'c']).
C19_SymbolsMatch ==
    last.op = "ExprProcess" =>
        LET init == last.arg
            declared == Range(init.varnames) \cup Names(init.params)
        IN  /\ last.result = "ok" => init.formula.syms = declared
            /\ init.formula.syms # declared
                   => (last.result # "ok" /\ ~proc.exists)

\* ---- C20.  Composition law: evaluate(D, P, full=True) is
\* evaluate(D, P, full=False) multiplied cell by cell by the product of the
\* results of every direct response, each evaluated fully (so with its own
\* responses, at any depth); it succeeds when all of these do; and for a
\* process without responses the two results are one.
C20_Composition ==
    last.op = "evaluate" =>
        LET D == last.arg[1]
            P == last.arg[2]
            full == last.arg[3]
            core == evaluate(proc, D, P, FALSE)
            direct == [k \in DOMAIN proc.responses |->
                          evaluate(proc.responses[k].proc, D,
                                   Get(EffectiveParams(proc, P),
                                       proc.responses[k].name),
                                   TRUE)]
            every == core.result = "ok"
                         /\ \A k \in DOMAIN direct : direct[k].result = "ok"
        IN  /\ full => (last.result = "ok" <=> every)
            /\ (full /\ last.result = "ok")
                   => \A i \in EvalCells :
                          last.ret[i]
                              = core.value[i]
                                  * Product([k \in DOMAIN direct |->
                                                direct[k].value], 1)[i]
            /\ (full /\ proc.responses = <<>>)
                   => (last.result = core.result /\ last.ret = core.value)
            /\ ~full => (last.result = core.result /\ last.ret = core.value)

\* C20's case: a process with two responses, one of them with a response of
\* its own, was evaluated fully: (a*k) * (b * (a*m)) * (3*b*k2) in the first
\* cell, with a = 1, b = 3, k = 2, m = 5, k2 = 3.
C20_Witness ==
    /\ last.op = "evaluate"
    /\ last.result = "ok"
    /\ last.arg[3]
    /\ Len(proc.responses) = 2
    /\ Len(proc.responses[1].proc.responses) = 1
    /\ Falsy(last.arg[2])
    /\ last.ret[0] = 810


\* The processes of the response tree of pr: pr, its responses, theirs, and
\* so on, as the set of the trees' nodes at depth 0, 1, 2 and 3.
Children(S) == UNION {{p.responses[k].proc : k \in DOMAIN p.responses} : p \in S}
Tree(pr) ==
    {pr} \cup Children({pr}) \cup Children(Children({pr}))
         \cup Children(Children(Children({pr})))

\* ---- C21.  dependent_vars() returns exactly the union of the process's
\* own varnames and the varnames of every process of its response tree, at
\* any depth: every such name is in the set, every member of the set is such
\* a name, and a parameter name that is no varname of the tree is not in it.
C21_DependentVars ==
    (last.op = "dependent_vars" /\ proc.exists) =>
        LET tree == Tree(proc)
            varnames == UNION {Range(p.varnames) : p \in tree}
            params == UNION {Names(p.params) : p \in tree}
        IN  /\ Children(Children(Children(Children({proc})))) = {}
            /\ last.ret = varnames
            /\ (params \ varnames) \cap last.ret = {}

\* C21's case: the process 'a' whose response 'b' has the response 'c*m':
\* the set is {a, b, c}, with the grandchild's variable and without m.
C21_Witness ==
    /\ last.op = "dependent_vars"
    /\ proc.exists
    /\ Len(proc.responses) = 1
    /\ Len(proc.responses[1].proc.responses) = 1
    /\ last.ret = {"a", "b", "c"}


\* ---- C22.  A call of add_response ends as the building of the response
\* from its config ends, whether or not the name is there already.  When the
\* building fails the process is left as it was.  When it succeeds the
\* mapping holds one entry for each name, the name given is bound to the
\* response just built, every other entry is as it was, the names that were
\* there keep their places (the order of first addition), and a new name
\* comes last.
C22_AddResponse ==
    [][Did("add_response", 0) =>
          LET name == last'.arg[1]
              built == from_dict(last'.arg[2])
              old == proc.responses
              new == proc'.responses
          IN  /\ last'.result = built.result
              /\ built.result # "ok" => proc' = proc
              /\ built.result = "ok" =>
                   /\ [proc' EXCEPT !.responses = old] = proc
                   /\ Names(new) = Names(old) \cup {name}
                   /\ Len(new) = Cardinality(Names(new))
                   /\ \A k \in DOMAIN new :
                          new[k].name = name => new[k].proc = built.proc
                   /\ \A k \in DOMAIN old :
                          /\ new[k].name = old[k].name
                          /\ old[k].name # name => new[k] = old[k]
                   /\ name \notin Names(old) => new[Len(new)].name = name]_vars

\* C22's case: r was added again after s had been added: r, now bound to
\* '2*b', is still first and s second.
C22_Witness ==
    /\ last.op = "add_response"
    /\ last.result = "ok"
    /\ last.arg[1] = "r"
    /\ Len(proc.responses) = 2
    /\ proc.responses[1].name = "r"
    /\ proc.responses[2].name = "s"
    /\ proc.responses[1].proc.formula = Formula(2, {"b"})
    /\ proc.responses[2].proc.formula = Formula(3, {"b", "k2"})

\* ---- C25.  In evaluate(D, P, full=True) the response named r is evaluated
\* with P.get(r) of the P the caller gave; when the caller gave None or an
\* empty mapping, the parent is evaluated with its declared parameters and
\* every response with None, so with its own declared parameters, at every
\* depth.  The call succeeds when the parent and every response so evaluated
\* succeed, and its value is their product.
C25_ResponseParams ==
    (last.op = "evaluate" /\ last.arg[3]) =>
        LET D == last.arg[1]
            P == last.arg[2]
            core == evaluate(proc, D, P, FALSE)
            direct == [k \in DOMAIN proc.responses |->
                          evaluate(proc.responses[k].proc, D,
                                   IF Falsy(P) THEN PyNone
                                   ELSE Get(P, proc.responses[k].name),
                                   TRUE)]
            every == core.result = "ok"
                         /\ \A k \in DOMAIN direct : direct[k].result = "ok"
        IN  /\ last.result = "ok" <=> every
            /\ last.result = "ok"
                   => \A i \in EvalCells :
                          last.ret[i]
                              = core.value[i]
                                  * Product([k \in DOMAIN direct |->
                                                direct[k].value], 1)[i]

\* ---- C27.  evaluate and dependent_vars leave the process as it was: its
\* formula, varnames, parameters (names, values, order) and responses; so
\* the same evaluate call made again gives the same result.
C27_Immutable ==
    [][(Did("evaluate", 0) \/ Did("dependent_vars", 0)) =>
          /\ proc' = proc
          /\ Did("evaluate", 0) =>
                 LET again == evaluate(proc', last'.arg[1], last'.arg[2],
                                       last'.arg[3])
                 IN  /\ again.result = last'.result
                     /\ again.value = last'.ret
                     /\ again.proc = proc]_vars

\* C27's case: 'a*k', declared with k = 2, was evaluated with k = 7 given in
\* P, and still declares k = 2.
C27_Witness ==
    /\ last.op = "evaluate"
    /\ last.result = "ok"
    /\ last.arg[2].kind = "dict"
    /\ "k" \in DOMAIN last.arg[2].items
    /\ last.arg[2].items["k"] = Num(7)
    /\ proc.params = <<Param("k", 2)>>
    /\ last.ret[0] = 7 * last.arg[1]["a"][0]

\* ---- C30.  With a P that is not empty every declared parameter is read
\* from P: a declared parameter that P lacks is a KeyError, never the
\* declared value; so a P that holds only overrides for responses fails for
\* a process that declares a parameter.  The same holds of a response and
\* the P it is given.  A call that succeeds computes with the values of P.
C30_AllOrNothing ==
    (last.op = "evaluate" /\ ~Falsy(last.arg[2])) =>
        LET D == last.arg[1]
            P == last.arg[2]
            full == last.arg[3]
            declared == Names(proc.params)
            lacking(pr, given) ==
                /\ ~Falsy(given)
                /\ Names(pr.params) \ DOMAIN given.items # {}
        IN  /\ lacking(proc, P) => last.result = "KeyError"
            /\ (declared # {} /\ declared \cap DOMAIN P.items = {})
                   => last.result = "KeyError"
            /\ (full /\ evaluate(proc, D, P, FALSE).result = "ok"
                  /\ \E k \in DOMAIN proc.responses :
                         lacking(proc.responses[k].proc,
                                 Get(P, proc.responses[k].name)))
                   => last.result = "KeyError"
            /\ (~full /\ last.result = "ok")
                   => \A i \in EvalCells :
                          last.ret[i]
                              = proc.formula.coef
                                  * SymProduct(proc.formula.syms,
                                               [n \in proc.formula.syms |->
                                                   IF n \in Range(proc.varnames)
                                                   THEN D[n][i]
                                                   ELSE P.items[n].num])

\* C30's case: 'a*k', which declares k, was evaluated with a P that holds
\* an override for the response r and nothing else, and a D that has every
\* variable.
C30_Witness ==
    /\ last.op = "evaluate"
    /\ last.result = "KeyError"
    /\ proc.exists
    /\ Names(proc.params) = {"k"}
    /\ Range(proc.varnames) \subseteq DOMAIN last.arg[1]
    /\ DOMAIN last.arg[2].items = {"r"}


\* The module and the class that a class path names: the part after the
\* last dot is the class, the part before it the module, and a path without
\* a dot names a class of 'microbenthos'.
ClassNamed(path) == path[Len(path)]
ModuleNamed(path) ==
    IF Len(path) = 1 THEN <<"microbenthos">>
    ELSE [k \in 1 .. Len(path) - 1 |-> path[k]]

\* The from_params call that the last call was or made: its class path,
\* init_params and post_params.
Requested ==
    IF last.op = "from_params"
    THEN [path |-> last.arg[1], init_params |-> last.arg[2],
          post_params |-> last.arg[3]]
    ELSE [path |-> last.arg.cls,
          init_params |-> IF "init_params" \in DOMAIN last.arg
                          THEN last.arg.init_params ELSE EmptyDict,
          post_params |-> IF "post_params" \in DOMAIN last.arg
                          THEN last.arg.post_params ELSE Mapping(EmptyDict)]
Resolving ==
    \/ last.op = "from_params"
    \/ last.op = "from_dict" /\ "cls" \in DOMAIN last.arg

C26_PostInit ==
    Resolving =>
        LET events == last.ret.events
            post == Requested.post_params
        IN  /\ last.result # "ok" => events = <<>>
            /\ last.result = "ok" =>
                   /\ events[1].ev = "__init__"
                   /\ \A k \in DOMAIN events : events[k].cls = last.ret.cls
                   /\ Len(events) = IF HasPostInit(last.ret.cls) THEN 2 ELSE 1
                   /\ HasPostInit(last.ret.cls) =>
                          /\ events[2].ev = "post_init"
                          /\ events[2].params
                                 = IF post.kind = "None" THEN Mapping(EmptyDict)
                                   ELSE post

\* C26's case: from_params built a DomainEntity with post_params None, and
\* post_init ran once, after the constructor, with no parameters.
C26_Witness ==
    /\ last.op = "from_params"
    /\ last.result = "ok"
    /\ last.arg[1] = <<"DomainEntity">>
    /\ last.arg[3] = PyNone
    /\ last.ret.events
           = << [ev |-> "__init__", cls |-> "DomainEntity", params |-> PyNone],
                [ev |-> "post_init", cls |-> "DomainEntity",
                 params |-> Mapping(EmptyDict)] >>

\* ---- C28.  from_dict takes 'cls' out of the dict it is given: after a
\* call on a dict that had the key, however the call ended, the dict lacks
\* 'cls' and holds its other entries as before; a call on a dict without the
\* key, so a second call on the same dict, raises KeyError and leaves the
\* dict alone.  (last.arg is the dict as it was when the call was made.)
C28_PopsCls ==
    last.op = "from_dict" =>
        LET before == last.arg
        IN  /\ "cls" \in DOMAIN before =>
                   /\ DOMAIN config_dict = DOMAIN before \ {"cls"}
                   /\ \A k \in DOMAIN config_dict : config_dict[k] = before[k]
            /\ "cls" \notin DOMAIN before =>
                   /\ last.result = "KeyError"
                   /\ config_dict = before

\* C28's case: the second from_dict on a dict that had 'cls' and
\* 'init_params' raised KeyError; init_params is still there.
C28_Witness ==
    /\ last.op = "from_dict"
    /\ last.result = "KeyError"
    /\ DOMAIN config_dict = {"init_params"}
    /\ DOMAIN last.arg = {"init_params"}


\* ---- C24.  A Variable.setup() that succeeds runs its steps in this order:
\* create; seed, when there is a seed; the old-value snapshot, when there is
\* a seed and hasOld; then every constraint.  So with a linear seed, hasOld
\* and a 'dbl' or 'sediment' constraint, after setup the constrained cells
\* hold the constraint's value while the snapshot holds the seeded profile
\* in every cell.
C24_SetupOrder ==
    [][\A e \in Ents :
          (Did("setup", e) /\ last'.result = "ok" /\ ent[e].cls = "Variable")
              => LET seeds == DOMAIN ent[e].seed_params # {}
                     hasOld == ent[e].create_params.hasOld
                     cons == ent[e].constraints
                     cv == cellvars'[ent'[e].var]
                     val == CellValue(cv)
                 IN  /\ last'.steps
                            = <<"create">>
                                \o (IF seeds THEN <<"seed">> ELSE <<>>)
                                \o (IF seeds /\ hasOld THEN <<"updateOld">>
                                    ELSE <<>>)
                                \o [k \in DOMAIN cons |-> "constrain"]
                     /\ (seeds /\ hasOld) =>
                            /\ cv.old = cv.value
                            /\ ent[e].seed_params.profile = "linear" =>
                                   LinearProfile(
                                       cv.old,
                                       ent[e].seed_params.params.start.v,
                                       ent[e].seed_params.params.stop.v)
                            /\ \A k \in DOMAIN cons, i \in DOMAIN val :
                                   (\/ cons[k].loc = "dbl" /\ i < idx_surface
                                    \/ cons[k].loc = "sediment"
                                           /\ i >= idx_surface)
                                       => val[i] = InUnit(cons[k].value,
                                                          cv.unit)]_vars

\* C24's case: a Variable with a linear seed from 0 to 990, hasOld and a dbl
\* constraint of 2 was set up on a domain with a DBL: the last cell of the
\* DBL holds 2, and its snapshot holds the seeded value, which is not 2.
C24_Witness ==
    /\ last.op = "setup"
    /\ last.result = "ok"
    /\ last.steps = <<"create", "seed", "updateOld", "constrain">>
    /\ idx_surface > 0
    /\ ent[last.ent].constraints = <<Con("dbl", Q(2, "mol/l"))>>
    /\ CellValue(cellvars[ent[last.ent].var])[idx_surface - 1] = 2
    /\ cellvars[ent[last.ent].var].old[idx_surface - 1]
           = cellvars[ent[last.ent].var].value[idx_surface - 1]
    /\ cellvars[ent[last.ent].var].old[idx_surface - 1] # 2
    /\ LinearProfile(cellvars[ent[last.ent].var].old, 0, 990)


\* ---- C29.  on_domain_set runs exactly once in the life of an entity, at
\* its transition from unattached to attached, after the domain reference
\* has been stored: an entity has at most one run, has one exactly when it
\* has a domain, and the run saw the domain the entity holds; an assignment
\* of None and a rejected re-attachment run nothing.
C29_HookOnce ==
    /\ \A e \in Ents :
           /\ Len(hook_runs[e]) <= 1
           /\ Len(hook_runs[e]) = 1 <=> ent[e].domain # None
           /\ \A k \in DOMAIN hook_runs[e] : hook_runs[e][k] = ent[e].domain
    /\ (last.op = "set_domain" /\ last.arg = None)
           => Len(hook_runs[last.ent]) = IF ent[last.ent].domain = None THEN 0
                                         ELSE 1
    /\ (last.op = "set_domain" /\ last.result = "RuntimeError")
           => hook_runs[last.ent] = <<ent[last.ent].domain>>

====
